---- MODULE Spec2Model ----
(***************************************************************************)
(* A model of ir_datasets_clueweb22/clueweb22.py: the ClueWeb22 document   *)
(* identifier codec, the record-count catalogue, the slice planner, the    *)
(* by-identifier lookup and the record combiners.                          *)
(*                                                                         *)
(* Strings whose characters matter (identifiers, URLs) are sequences of    *)
(* one-character strings, so that splitting, slicing, padding and integer  *)
(* parsing are computed and not assumed.                                   *)
(***************************************************************************)
EXTENDS Integers, Sequences, FiniteSets, TLC

VARIABLES
    \* ---- identifier codec (ClueWeb22DocId) ----
    idPhase,      \* "idle" | "parsed" | "parsed_str" | "formatted" | "formatted_parsed"
    idSrcText,    \* the string the caller handed to from_string
    idSrcId,      \* the ClueWeb22DocId the caller handed to __str__
    idValue,      \* result of from_string: [raised, id]
    idText,       \* result of __str__
    \* ---- record readers and combiner (_ClueWeb22Iterable.__iter__) ----
    cSubset,      \* the subset view whose combiner runs: "L" | "A" | "B"
    cStatus,      \* "running" | "yielded" | "failed" | "done"
    cPc,          \* index into the formats of the format zip() pulls next
    cLine,        \* per format: the line (or member) the reader consumed last
    cTuple,       \* per format: the record pulled for the current tuple
    cLinesRead,   \* per format: number of lines (or members) consumed
    cEmitted,     \* number of documents yielded so far
    cDoc,         \* the document yielded last
    cLog,         \* log entries written while combining the current tuple
    cPrevWarned,  \* whether a warning was logged for an earlier tuple
    \* ---- the corpus on disk and the reader (ClueWeb22Docs) ----
    catalog,      \* per format: the rows (FileId, count) of record_counts/<format>
    sidecarEnd,   \* whether the offset sidecars of the corpus hold, after the
                  \*   offset of every record, a line for the end of the shard
    rSubset,      \* ClueWeb22Docs._subset
    rView,        \* ClueWeb22Docs._subset_view
    rLanguage,    \* ClueWeb22Docs._language: <<>> (None) or <<language id>>
    rSetOrder,    \* the format next(iter(diff_formats)) yields in this process
    \* ---- the last operation on the reader and its outcome ----
    opKind,       \* "none" | "count" | "iter" | "slice" | "get_many"
    opKey,        \* the slice key, or the identifiers requested
    opStatus,     \* "ok" or the exception raised
    opCount,      \* docs_count()
    opDocs,       \* the documents yielded, in order
    opOpened,     \* per format: the shard files opened, in order
    \* ---- the registry of ir_datasets ----
    registered,   \* the names datasets are registered under
    \* ---- a document iterator consumed document by document ----
    sKind,        \* "none" | "iter" | "slice" | "get_many"
    sKey,         \* the slice key, or the request and its set orders
    sPhase,       \* "none" | "live" | "returning" | "exhausted" | "dropped" |
                  \*   "raised" | "releasing" | "failed"
    sPc,          \* index of the format zip() is asking; 0 between the calls of next(it)
    sPulled,      \* number of documents the caller has received
    sGen,         \* per format: where its file generator stands:
                  \*   "new" | "file" | "stream" | "closing" | "loop" | "ended"
    sWalked,      \* per format: number of catalogue rows (groups) the walk reached
    sRead,        \* per format: number of records read of the shard the walk stands at
    sOpen,        \* per format: the handles that are open
    sAlive,       \* the objects that have not been finalized
    sRefs         \* the references between them, <<from, to>>

codecVars == <<idPhase, idSrcText, idSrcId, idValue, idText>>

combVars ==
    <<cSubset, cStatus, cPc, cLine, cTuple, cLinesRead, cEmitted, cDoc, cLog,
      cPrevWarned>>

diskVars == <<catalog, sidecarEnd, rSubset, rView, rLanguage, rSetOrder>>

opVars == <<opKind, opKey, opStatus, opCount, opDocs, opOpened>>

readerVars == <<diskVars, opVars>>

registryVars == <<registered>>

streamVars ==
    <<sKind, sKey, sPhase, sPc, sPulled, sGen, sWalked, sRead, sOpen, sAlive,
      sRefs>>

vars == <<codecVars, combVars, readerVars, registryVars, streamVars>>

othersOfCodec == <<combVars, readerVars, registryVars, streamVars>>

othersOfComb == <<codecVars, readerVars, registryVars, streamVars>>

othersOfReader == <<codecVars, combVars, registryVars, streamVars>>

othersOfRegistry == <<codecVars, combVars, readerVars, streamVars>>

othersOfStream == <<codecVars, combVars, readerVars, registryVars>>

(***************************************************************************)
(* Python string primitives on character sequences.                        *)
(***************************************************************************)

\* The decimal digits int() accepts, one script after the other, each from
\* its zero to its nine; the first ten are those str() writes.  The scripts,
\* by their zero:
\*   U+0030 (ASCII)
\*   U+06F0 (extended arabic-indic)
\*   U+07C0 (nko)
\*   U+09E6 (bengali)
\*   U+0AE6 (gujarati)
\*   U+0BE6 (tamil)
\*   U+0CE6 (kannada)
\*   U+0DE6 (sinhala lith)
\*   U+0ED0 (lao)
\*   U+1090 (myanmar shan)
\*   U+17E0 (khmer)
\*   U+19D0 (new tai lue)
\*   U+1A80 (tai tham hora)
\*   U+1A90 (tai tham tham)
\*   U+1BB0 (sundanese)
\*   U+A8D0 (saurashtra)
\*   U+A9D0 (javanese)
\*   U+A9F0 (myanmar tai laing)
\*   U+ABF0 (meetei mayek)
\* The decimal digits of the other scripts (U+0660, U+0966, U+FF10, those
\* beyond U+FFFF, ...) cannot be written in a string of this module and are
\* not in its alphabet.
Digits ==
    <<"0", "1", "2", "3", "4", "5", "6", "7", "8", "9">>
    \o
    <<"۰", "۱", "۲", "۳", "۴", "۵", "۶", "۷", "۸", "۹">>
    \o
    <<"߀", "߁", "߂", "߃", "߄", "߅", "߆", "߇", "߈", "߉">>
    \o
    <<"০", "১", "২", "৩", "৪", "৫", "৬", "৭", "৮", "৯">>
    \o
    <<"૦", "૧", "૨", "૩", "૪", "૫", "૬", "૭", "૮", "૯">>
    \o
    <<"௦", "௧", "௨", "௩", "௪", "௫", "௬", "௭", "௮", "௯">>
    \o
    <<"೦", "೧", "೨", "೩", "೪", "೫", "೬", "೭", "೮", "೯">>
    \o
    <<"෦", "෧", "෨", "෩", "෪", "෫", "෬", "෭", "෮", "෯">>
    \o
    <<"໐", "໑", "໒", "໓", "໔", "໕", "໖", "໗", "໘", "໙">>
    \o
    <<"႐", "႑", "႒", "႓", "႔", "႕", "႖", "႗", "႘", "႙">>
    \o
    <<"០", "១", "២", "៣", "៤", "៥", "៦", "៧", "៨", "៩">>
    \o
    <<"᧐", "᧑", "᧒", "᧓", "᧔", "᧕", "᧖", "᧗", "᧘", "᧙">>
    \o
    <<"᪀", "᪁", "᪂", "᪃", "᪄", "᪅", "᪆", "᪇", "᪈", "᪉">>
    \o
    <<"᪐", "᪑", "᪒", "᪓", "᪔", "᪕", "᪖", "᪗", "᪘", "᪙">>
    \o
    <<"᮰", "᮱", "᮲", "᮳", "᮴", "᮵", "᮶", "᮷", "᮸", "᮹">>
    \o
    <<"꣐", "꣑", "꣒", "꣓", "꣔", "꣕", "꣖", "꣗", "꣘", "꣙">>
    \o
    <<"꧐", "꧑", "꧒", "꧓", "꧔", "꧕", "꧖", "꧗", "꧘", "꧙">>
    \o
    <<"꧰", "꧱", "꧲", "꧳", "꧴", "꧵", "꧶", "꧷", "꧸", "꧹">>
    \o
    <<"꯰", "꯱", "꯲", "꯳", "꯴", "꯵", "꯶", "꯷", "꯸", "꯹">>

IsDigit(c) == \E i \in 1..Len(Digits) : Digits[i] = c

\* the value of a digit: its place in its script
DigitVal(c) == ((CHOOSE i \in 1..Len(Digits) : Digits[i] = c) - 1) % 10

\* s[-n:] for n > 0
LastN(s, n) == IF Len(s) <= n THEN s ELSE SubSeq(s, Len(s) - n + 1, Len(s))

\* s[:-n] for n > 0
DropLastN(s, n) == IF Len(s) <= n THEN <<>> ELSE SubSeq(s, 1, Len(s) - n)

\* s[:n]
FirstN(s, n) == IF Len(s) <= n THEN s ELSE SubSeq(s, 1, n)

RECURSIVE SplitRec(_, _, _, _)
SplitRec(s, sep, cur, acc) ==
    IF s = <<>> THEN Append(acc, cur)
    ELSE IF Head(s) = sep THEN SplitRec(Tail(s), sep, <<>>, Append(acc, cur))
    ELSE SplitRec(Tail(s), sep, Append(cur, Head(s)), acc)

\* str.split(sep) for a one-character separator
Split(s, sep) == SplitRec(s, sep, <<>>, <<>>)

RECURSIVE Join(_, _)
\* sep.join(parts)
Join(parts, sep) ==
    IF parts = <<>> THEN <<>>
    ELSE IF Len(parts) = 1 THEN parts[1]
    ELSE parts[1] \o <<sep>> \o Join(Tail(parts), sep)

\* the whitespace characters that have no escape in a string, written as
\* the character itself: U+000B (vertical tab), U+001C..U+001F (file, group,
\* record and unit separator), U+0085 (next line), U+00A0 (no-break space)
\* and U+1680 (ogham space mark)
VerticalTab == ""

Separators == {"", "", "", ""}

NextLine == ""

NoBreakSpace == " "

OghamSpace == " "

\* str.isspace(): the characters str.strip() removes.  The whitespace from
\* U+2000 on (U+2000..U+200A, U+2028, U+2029, U+202F, U+205F, U+3000) cannot
\* be written in a string of this module and is not in its alphabet.
IsSpace(c) ==
    \/ c \in {" ", "\t", "\n", "\r", "\f", VerticalTab, NextLine, NoBreakSpace,
              OghamSpace}
    \/ c \in Separators

\* the characters int() accepts around a literal: those of str.strip() but
\* U+001C..U+001F
IsIntSpace(c) == IsSpace(c) /\ c \notin Separators

RECURSIVE LStrip(_)
LStrip(s) == IF s # <<>> /\ IsSpace(Head(s)) THEN LStrip(Tail(s)) ELSE s

RECURSIVE RStrip(_)
RStrip(s) ==
    IF s # <<>> /\ IsSpace(s[Len(s)]) THEN RStrip(SubSeq(s, 1, Len(s) - 1)) ELSE s

\* str.strip()
Strip(s) == LStrip(RStrip(s))

\* the literal int() parses: s less the whitespace of int() around it
IntStrip(s) ==
    LET kept == {i \in 1..Len(s) : ~IsIntSpace(s[i])}
    IN  IF kept = {} THEN <<>>
        ELSE SubSeq(s, CHOOSE i \in kept : \A j \in kept : i <= j,
                    CHOOSE i \in kept : \A j \in kept : j <= i)

RECURSIVE DigitsValue(_, _)
DigitsValue(s, acc) ==
    IF s = <<>> THEN acc
    ELSE IF Head(s) = "_" THEN DigitsValue(Tail(s), acc)
    ELSE DigitsValue(Tail(s), 10 * acc + DigitVal(Head(s)))

\* the body of an integer literal accepted by int(): digits, with single
\* underscores between digits only
IsIntBody(b) ==
    /\ b # <<>>
    /\ IsDigit(b[1])
    /\ IsDigit(b[Len(b)])
    /\ \A i \in 1..Len(b) : IsDigit(b[i]) \/ b[i] = "_"
    /\ \A i \in 1..(Len(b) - 1) : ~(b[i] = "_" /\ b[i + 1] = "_")

\* int(s): surrounding whitespace stripped, an optional sign, then the body.
IntSigned(s) ==
    IntStrip(s) # <<>> /\ (IntStrip(s)[1] = "+" \/ IntStrip(s)[1] = "-")

IntBody(s) == IF IntSigned(s) THEN Tail(IntStrip(s)) ELSE IntStrip(s)

\* int(s) raises ValueError exactly when this is FALSE
PyIntOk(s) == IsIntBody(IntBody(s))

\* the value of int(s) when it does not raise
PyInt(s) ==
    IF IntSigned(s) /\ IntStrip(s)[1] = "-" THEN 0 - DigitsValue(IntBody(s), 0)
    ELSE DigitsValue(IntBody(s), 0)

RECURSIVE NatDigits(_)
\* str(n) for n >= 0
NatDigits(n) ==
    IF n < 10 THEN <<Digits[n + 1]>>
    ELSE Append(NatDigits(n \div 10), Digits[(n % 10) + 1])

RECURSIVE PadLeft(_, _)
PadLeft(s, width) == IF Len(s) >= width THEN s ELSE PadLeft(<<"0">> \o s, width)

\* f"{n:0>width}" for n >= 0
Pad(n, width) == PadLeft(NatDigits(n), width)

(***************************************************************************)
(* Constants and languages.                                                *)
(***************************************************************************)

_MAX_SUBDIRECTORIES_PER_STREAM == 80
_MAX_FILES_PER_SUBDIRECTORY == 100

CLUEWEB22 == <<"c", "l", "u", "e", "w", "e", "b", "2", "2">>

\* ClueWeb22Language: the id of every member, in declaration order
ClueWeb22Language ==
    << <<"d", "e">>, <<"e", "n">>, <<"e", "s">>, <<"f", "r">>, <<"i", "t">>,
       <<"j", "a">>, <<"n", "l">>, <<"p", "o">>, <<"p", "t">>,
       <<"z", "h", "_", "c", "h", "s">>, <<"o", "t", "h", "e", "r">> >>

LanguageIds == {ClueWeb22Language[i] : i \in 1..Len(ClueWeb22Language)}

(***************************************************************************)
(* ClueWeb22DocId                                                          *)
(***************************************************************************)

ClueWeb22DocId(language, stream, subdirectory, file, doc) ==
    [language |-> language, stream |-> stream, subdirectory |-> subdirectory,
     file |-> file, doc |-> doc]

NoDocId == ClueWeb22DocId(<<>>, 0 - 1, 0 - 1, 0 - 1, 0 - 1)

RaiseValueError == [raised |-> TRUE, id |-> NoDocId]

Return(d) == [raised |-> FALSE, id |-> d]

\* ClueWeb22DocId.from_string without the file-number range check
FromStringNoFileCheck(doc_id) ==
    LET parts == Split(doc_id, "-")
        subdirectory == parts[2]
        language == DropLastN(subdirectory, 4)
    IN  IF Len(parts) # 4 THEN RaiseValueError
        ELSE IF parts[1] # CLUEWEB22 THEN RaiseValueError
        ELSE IF language \notin LanguageIds THEN RaiseValueError
        ELSE IF ~PyIntOk(DropLastN(LastN(subdirectory, 4), 2)) THEN RaiseValueError
        ELSE IF ~PyIntOk(LastN(subdirectory, 2)) THEN RaiseValueError
        ELSE IF PyInt(LastN(subdirectory, 2)) > _MAX_SUBDIRECTORIES_PER_STREAM
            THEN RaiseValueError
        ELSE IF ~PyIntOk(parts[3]) THEN RaiseValueError
        ELSE IF ~PyIntOk(parts[4]) THEN RaiseValueError
        ELSE Return(ClueWeb22DocId(
                 language,
                 PyInt(DropLastN(LastN(subdirectory, 4), 2)),
                 PyInt(LastN(subdirectory, 2)),
                 PyInt(parts[3]),
                 PyInt(parts[4])))

\* ClueWeb22DocId.from_string: the checks in the order of the code; int()
\* raises ValueError as well
FromString(doc_id) ==
    LET parts == Split(doc_id, "-")
        subdirectory == parts[2]
        language == DropLastN(subdirectory, 4)
    IN  IF Len(parts) # 4 THEN RaiseValueError
        ELSE IF parts[1] # CLUEWEB22 THEN RaiseValueError
        ELSE IF language \notin LanguageIds THEN RaiseValueError
        ELSE IF ~PyIntOk(DropLastN(LastN(subdirectory, 4), 2)) THEN RaiseValueError
        ELSE IF ~PyIntOk(LastN(subdirectory, 2)) THEN RaiseValueError
        ELSE IF PyInt(LastN(subdirectory, 2)) > _MAX_SUBDIRECTORIES_PER_STREAM
            THEN RaiseValueError
        ELSE IF ~PyIntOk(parts[3]) THEN RaiseValueError
        ELSE IF PyInt(parts[3]) > _MAX_FILES_PER_SUBDIRECTORY THEN RaiseValueError
        ELSE IF ~PyIntOk(parts[4]) THEN RaiseValueError
        ELSE Return(ClueWeb22DocId(
                 language,
                 PyInt(DropLastN(LastN(subdirectory, 4), 2)),
                 PyInt(LastN(subdirectory, 2)),
                 PyInt(parts[3]),
                 PyInt(parts[4])))

\* ClueWeb22DocId.__str__
Str(d) ==
    Join(<< CLUEWEB22,
            d.language \o Pad(d.stream, 2) \o Pad(d.subdirectory, 2),
            Pad(d.file, 2),
            Pad(d.doc, 5) >>, "-")

(***************************************************************************)
(* Base records and the readers that produce them.  A reader is modelled   *)
(* per line (per WARC record, per ZIP member): the sequence of records the *)
(* generator yields for that line.                                         *)
(***************************************************************************)

_Txt(doc_id, url, url_hash, language, text) ==
    [doc_id |-> doc_id, url |-> url, url_hash |-> url_hash,
     language |-> language, text |-> text]

\* the fields of _Html the combiners only pass through (date, record_id,
\* payload_digest, html, vdom_nodes) are one opaque payload
_Html(doc_id, url, url_hash, language, payload) ==
    [doc_id |-> doc_id, url |-> url, url_hash |-> url_hash,
     language |-> language, payload |-> payload]

Anchor(url, url_hash, text, language) ==
    [url |-> url, url_hash |-> url_hash, text |-> text, language |-> language]

_Link(doc_id, url, url_hash, anchors) ==
    [null |-> FALSE, doc_id |-> doc_id, url |-> url, url_hash |-> url_hash,
     anchors |-> anchors]

\* Python's None where an Optional[_Link] is expected
NullLink ==
    [null |-> TRUE, doc_id |-> 0, url |-> <<>>, url_hash |-> "",
     anchors |-> <<"AttributeError">>]

_Vdom(vdom) == [vdom |-> vdom]

EndsWith(s, c) == s # <<>> /\ s[Len(s)] = c

\* _read_txt, one line: the trailing newline of the URL is stripped
_read_txt(line) ==
    LET url == IF EndsWith(line.URL, "\n")
               THEN SubSeq(line.URL, 1, Len(line.URL) - 1)
               ELSE line.URL
    IN  << _Txt(line.ClueWeb22_ID, url, line.URL_hash, line.Language,
                line.Clean_Text) >>

\* _read_html, one WARC response record
_read_html(record) ==
    << _Html(record.ClueWeb22_ID, record.WARC_Target_URI, record.URL_Hash,
             record.Language, record.payload) >>

\* _parse_anchor: elements 0, 1, 2 and 4 of the JSON array
_parse_anchor(json) == Anchor(json[1], json[2], json[3], json[5])

ParseAnchors(list) == [i \in 1..Len(list) |-> _parse_anchor(list[i])]

\* _read_inlink with blank lines dropped instead of yielding None
ReadInlinkSkippingBlank(line) ==
    IF Len(Strip(line.raw)) = 0 THEN <<>>
    ELSE << _Link(line.json.ClueWeb22_ID, line.json.url, line.json.urlhash,
                  ParseAnchors(line.json.anchors)) >>

\* _read_inlink, one line
_read_inlink(line) ==
    IF Len(Strip(line.raw)) = 0 THEN <<NullLink>>
    ELSE << _Link(line.json.ClueWeb22_ID, line.json.url, line.json.urlhash,
                  ParseAnchors(line.json.anchors)) >>

\* _read_outlink, one line
_read_outlink(line) ==
    IF Len(Strip(line.raw)) = 0 THEN <<NullLink>>
    ELSE << _Link(line.json.ClueWeb22_ID, line.json.url, line.json.urlhash,
                  ParseAnchors(line.json.outlinks)) >>

\* _read_vdom: the whole member is one record
_read_vdom(member) == << _Vdom(member) >>

(***************************************************************************)
(* Subsets and combiners.                                                  *)
(***************************************************************************)

\* ClueWeb22Subset.formats (the JPG format of B is commented out)
Formats(subset) ==
    IF subset = "L" THEN <<"txt">>
    ELSE <<"txt", "html", "inlink", "outlink", "vdom">>

NoDoc == [type |-> "none"]

LogEntry(level, what, format) == [level |-> level, what |-> what, format |-> format]

Failed(log) == [failed |-> TRUE, log |-> log, doc |-> NoDoc]

Yield(log, doc) == [failed |-> FALSE, log |-> log, doc |-> doc]

Contains(s, c) == \E i \in 1..Len(s) : s[i] = c

\* the tolerance test reduced to: "," in html.url
HasComma(txt_url, html_url) == Contains(html_url, ",")

\* "," in html.url and html.url.split(",")[0] == txt.url
TruncatedAtComma(txt_url, html_url) ==
    Contains(html_url, ",") /\ Split(html_url, ",")[1] = txt_url

\* the log after the TXT/HTML URL and URL-hash comparisons
TxtUrlLog(txt, html) ==
    IF txt.url # html.url THEN <<LogEntry("debug", "url", "txt")>> ELSE <<>>

TxtHashLog(txt, html) ==
    IF txt.url_hash # html.url_hash
    THEN <<LogEntry("warn", "url_hash", "txt")>> ELSE <<>>

\* the warnings of the "if inlink is not None" / "if outlink is not None" block
LinkLog(format, link, html) ==
    (IF link.url # html.url THEN <<LogEntry("warn", "url", format)>> ELSE <<>>)
    \o (IF link.url_hash # html.url_hash
        THEN <<LogEntry("warn", "url_hash", format)>> ELSE <<>>)

ADoc(type, txt, html, inlink, outlink, vdom) ==
    [type |-> type,
     doc_id |-> html.doc_id,
     url |-> html.url,
     url_hash |-> html.url_hash,
     language |-> html.language,
     text |-> txt.text,
     payload |-> html.payload,
     vdom |-> vdom.vdom,
     inlink_anchors |-> IF ~inlink.null THEN inlink.anchors ELSE <<>>,
     outlink_anchors |-> IF ~outlink.null THEN outlink.anchors ELSE <<>>]

\* CombineTuple without the assert on the INLINK doc_id
CombineTupleUncheckedInlink(type, t) ==
    LET txt == t.txt
        html == t.html
        inlink == t.inlink
        outlink == t.outlink
        log1 == TxtUrlLog(txt, html)
        log2 == log1 \o TxtHashLog(txt, html)
        log3 == log2 \o (IF inlink.null THEN <<>> ELSE LinkLog("inlink", inlink, html))
        log4 == log3 \o (IF outlink.null THEN <<>> ELSE LinkLog("outlink", outlink, html))
    IN  IF txt.doc_id # html.doc_id THEN Failed(<<>>)
        ELSE IF txt.url # html.url /\ ~TruncatedAtComma(txt.url, html.url)
            THEN Failed(log1)
        ELSE IF ~(txt.language = "other" \/ txt.language = html.language)
            THEN Failed(log2)
        ELSE IF ~outlink.null /\ outlink.doc_id # html.doc_id THEN Failed(log3)
        ELSE Yield(log4, ADoc(type, txt, html, inlink, outlink, t.vdom))

\* CombineTuple with the URL-hash comparison of TXT and HTML as an assert
CombineTupleStrictHash(type, t) ==
    LET txt == t.txt
        html == t.html
        inlink == t.inlink
        outlink == t.outlink
        log1 == TxtUrlLog(txt, html)
        log2 == log1 \o TxtHashLog(txt, html)
        log3 == log2 \o (IF inlink.null THEN <<>> ELSE LinkLog("inlink", inlink, html))
        log4 == log3 \o (IF outlink.null THEN <<>> ELSE LinkLog("outlink", outlink, html))
    IN  IF txt.doc_id # html.doc_id THEN Failed(<<>>)
        ELSE IF txt.url # html.url /\ ~TruncatedAtComma(txt.url, html.url)
            THEN Failed(log1)
        ELSE IF txt.url_hash # html.url_hash THEN Failed(log2)
        ELSE IF ~(txt.language = "other" \/ txt.language = html.language)
            THEN Failed(log2)
        ELSE IF ~inlink.null /\ inlink.doc_id # html.doc_id THEN Failed(log2)
        ELSE IF ~outlink.null /\ outlink.doc_id # html.doc_id THEN Failed(log3)
        ELSE Yield(log4, ADoc(type, txt, html, inlink, outlink, t.vdom))

\* the body of the for loop of _combine_a_docs and of _combine_b_docs, which
\* are the same statements: the asserts and log calls in program order
CombineTuple(type, t) ==
    LET txt == t.txt
        html == t.html
        inlink == t.inlink
        outlink == t.outlink
        log1 == TxtUrlLog(txt, html)
        log2 == log1 \o TxtHashLog(txt, html)
        log3 == log2 \o (IF inlink.null THEN <<>> ELSE LinkLog("inlink", inlink, html))
        log4 == log3 \o (IF outlink.null THEN <<>> ELSE LinkLog("outlink", outlink, html))
    IN  IF txt.doc_id # html.doc_id THEN Failed(<<>>)
        ELSE IF txt.url # html.url /\ ~TruncatedAtComma(txt.url, html.url)
            THEN Failed(log1)
        ELSE IF ~(txt.language = "other" \/ txt.language = html.language)
            THEN Failed(log2)
        ELSE IF ~inlink.null /\ inlink.doc_id # html.doc_id THEN Failed(log2)
        ELSE IF ~outlink.null /\ outlink.doc_id # html.doc_id THEN Failed(log3)
        ELSE Yield(log4, ADoc(type, txt, html, inlink, outlink, t.vdom))

\* _combine_l_docs, one tuple
_combine_l_docs(t) ==
    Yield(<<>>, [type |-> "L", doc_id |-> t.txt.doc_id, url |-> t.txt.url,
                 url_hash |-> t.txt.url_hash, language |-> t.txt.language,
                 text |-> t.txt.text])

\* _combine_a_docs, one tuple
_combine_a_docs(t) == CombineTuple("A", t)

\* _combine_b_docs, one tuple
_combine_b_docs(t) == CombineTuple("B", t)

\* ClueWeb22Subset.combiner
Combiner(subset, t) ==
    IF subset = "L" THEN _combine_l_docs(t)
    ELSE IF subset = "A" THEN _combine_a_docs(t)
    ELSE _combine_b_docs(t)

(***************************************************************************)
(* Formats, subsets and the record-count catalogue (ClueWeb22Docs).        *)
(***************************************************************************)

AllFormats == {"txt", "html", "inlink", "outlink", "vdom"}

\* ClueWeb22Format.compression
Compression(format) == IF format = "vdom" THEN "ZIP" ELSE "GZIP"

Subsets == {"L", "A", "B"}

\* ClueWeb22Subset.extends: <<>> is None
Extends(subset) ==
    IF subset = "B" THEN <<"A">> ELSE IF subset = "A" THEN <<"L">> ELSE <<>>

\* subset_views of a subset that extends nothing
OwnView(subset) == {subset}

RECURSIVE SubsetViews(_)
\* ClueWeb22Subset.subset_views
SubsetViews(subset) ==
    IF Extends(subset) # <<>>
    THEN {subset} \cup SubsetViews(Extends(subset)[1])
    ELSE {subset}

FormatSet(subset) == {Formats(subset)[i] : i \in 1..Len(Formats(subset))}

\* ClueWeb22Subset.diff_formats
DiffFormats(subset) ==
    FormatSet(subset) \ UNION {FormatSet(v) : v \in SubsetViews(subset) \ {subset}}

ClueWeb22FileId(language, stream, subdirectory, file) ==
    [language |-> language, stream |-> stream, subdirectory |-> subdirectory,
     file |-> file]

Row(file_id, count) == [file_id |-> file_id, count |-> count]

StartsWith(s, prefix) ==
    Len(prefix) <= Len(s) /\ SubSeq(s, 1, Len(prefix)) = prefix

\* the name of the counts file of a row, less "_counts.csv"
CountsTag(file_id) == file_id.language \o Pad(file_id.stream, 2)

\* the glob f"{language_prefix}*_counts.csv" of _record_counts
GlobMatches(file_id, language) ==
    StartsWith(CountsTag(file_id),
               IF language # <<>> THEN language[1] ELSE <<>>)

RECURSIVE SelectRows(_, _)
SelectRows(rows, language) ==
    IF rows = <<>> THEN <<>>
    ELSE IF GlobMatches(Head(rows).file_id, language)
         THEN <<Head(rows)>> \o SelectRows(Tail(rows), language)
         ELSE SelectRows(Tail(rows), language)

\* ClueWeb22Docs._record_counts: the rows of the counts files the glob
\* selects, in the order of the sorted file names
_record_counts(format) == SelectRows(catalog[format], rLanguage)

\* diff_format_record_counts reading the diff formats of the subset view
DiffFormatRecordCountsOfView ==
    IF DiffFormats(rView) = {} THEN _record_counts("html")
    ELSE _record_counts(CHOOSE f \in DiffFormats(rView) : TRUE)

\* ClueWeb22Docs.diff_format_record_counts: next(iter(diff_formats)) picks
\* the member the set's iteration order puts first; with no diff format
\* (StopIteration) the HTML counts are used
diff_format_record_counts ==
    IF DiffFormats(rSubset) = {} THEN _record_counts("html")
    ELSE _record_counts(rSetOrder)

RECURSIVE SumCounts(_)
SumCounts(rows) ==
    IF rows = <<>> THEN 0 ELSE Head(rows).count + SumCounts(Tail(rows))

\* ClueWeb22Docs.docs_count
docs_count == SumCounts(diff_format_record_counts)

\* index of the first row of `rows` for file_id, 0 if there is none
FirstRowOf(rows, file_id) ==
    IF \E i \in 1..Len(rows) : rows[i].file_id = file_id
    THEN CHOOSE i \in 1..Len(rows) :
             /\ rows[i].file_id = file_id
             /\ \A j \in 1..(i - 1) : rows[j].file_id # file_id
    ELSE 0

RECURSIVE MatchRows(_, _)
\* the loops of record_counts: `counts` is one generator, consumed by the
\* inner loop up to the matching row, or to its end when no row matches
MatchRows(diff_rows, counts) ==
    IF diff_rows = <<>> THEN <<>>
    ELSE LET i == FirstRowOf(counts, Head(diff_rows).file_id)
         IN  IF i = 0 THEN MatchRows(Tail(diff_rows), <<>>)
             ELSE <<Row(Head(diff_rows).file_id, Head(diff_rows).count)>>
                  \o MatchRows(Tail(diff_rows), SubSeq(counts, i + 1, Len(counts)))

\* record_counts yielding the rows of the format's own catalogue
CatalogueCounts(format) == _record_counts(format)

\* ClueWeb22Docs.record_counts
record_counts(format) ==
    MatchRows(diff_format_record_counts, _record_counts(format))

(***************************************************************************)
(* The corpus: shard file_id holds, in every format, the records of the    *)
(* documents file_id-0, file_id-1, ... that the catalogue counts.  The     *)
(* text, payload, anchors and V-DOM of a stored record name the document   *)
(* they belong to.                                                         *)
(***************************************************************************)

DocIdOf(file_id, doc) ==
    ClueWeb22DocId(file_id.language, file_id.stream, file_id.subdirectory,
                   file_id.file, doc)

FileIdOf(doc_id) ==
    ClueWeb22FileId(doc_id.language, doc_id.stream, doc_id.subdirectory,
                    doc_id.file)

Stored(format, d) ==
    IF format = "txt" THEN _Txt(d, <<"u">>, "h", "de", d)
    ELSE IF format = "html" THEN _Html(d, <<"u">>, "h", "de", d)
    ELSE IF format = "vdom" THEN _Vdom(d)
    ELSE _Link(d, <<"u">>, "h", <<d>>)

\* ClueWeb22FileId.path and ClueWeb22DocId.path
Path(id) ==
    LET language_path == id.language
        stream_path == language_path \o Pad(id.stream, 2)
        subdirectory_path == stream_path \o Pad(id.subdirectory, 2)
        file_path == subdirectory_path \o <<"-">> \o Pad(id.file, 2)
    IN  Join(<<language_path, stream_path, subdirectory_path, file_path>>, "/")

RECURSIVE Replace(_, _, _)
\* str.replace(old, new)
Replace(s, old, new) ==
    IF Len(s) < Len(old) THEN s
    ELSE IF StartsWith(s, old)
         THEN new \o Replace(SubSeq(s, Len(old) + 1, Len(s)), old, new)
         ELSE <<Head(s)>> \o Replace(Tail(s), old, new)

ZhPath == <<"z", "h", "_", "c", "h", "s", "/", "z", "h", "_", "c", "h", "s">>

ZhFixed == <<"z", "h", "_", "c", "h", "s", "/", "z", "h">>

\* _fix_path applying the replacement for every format
FixPathOfAnyFormat(path, format) ==
    IF Contains(path, "_") THEN Replace(path, ZhPath, ZhFixed) ELSE path

_fix_path(path, format) ==
    IF format = "outlink" /\ Contains(path, "_")
    THEN Replace(path, ZhPath, ZhFixed) ELSE path

RECURSIVE SortedSeq(_)
\* the members of a set of numbers in ascending order
SortedSeq(S) ==
    IF S = {} THEN <<>>
    ELSE LET m == CHOOSE x \in S : \A y \in S : x <= y
         IN  <<m>> \o SortedSeq(S \ {m})

Min(a, b) == IF a < b THEN a ELSE b

Max(a, b) == IF a > b THEN a ELSE b

(***************************************************************************)
(* _ClueWeb22Iterator: the full iteration and the slice planner.  A file   *)
(* iterator is modelled by its steps, one per catalogue row it reaches:    *)
(* whether it opens the shard and the local indices of the records the     *)
(* streams it yields for the shard deliver, in order.                      *)
(***************************************************************************)

Step(file_id, opened, indices) ==
    [file_id |-> file_id, opened |-> opened, indices |-> indices,
     raised |-> FALSE]

\* a step at which the generator opens the shard and raises an error
RaisingStep(file_id) ==
    [file_id |-> file_id, opened |-> TRUE, indices |-> <<>>, raised |-> TRUE]

SliceStep(file_id, index_offset, opened, indices) ==
    [file_id |-> file_id, index_offset |-> index_offset, opened |-> opened,
     indices |-> indices, raised |-> FALSE]

\* the offsets _read_offsets yields for the sidecar of a GZIP shard of
\* `count` records, an offset given as the number of records before it:
\* one line per record and, in a corpus whose sidecars hold it, a line
\* for the end of the shard.  Line i of a sidecar is the start of record
\* i, so the first line, where there is one, is the start of the shard;
\* the sidecar of an empty shard without the line for the end is empty
SidecarOffsets(count) ==
    [i \in 1..(IF sidecarEnd THEN count + 1 ELSE count) |-> i - 1]

\* _ClueWeb22Iterator._file_paths: the rows of record_counts(format)
Iterator_file_paths(format) == record_counts(format)

RECURSIVE AllSteps(_, _)
\* _file_iterator_all: every shard is opened.  A GZIP shard is read from
\* the first offset of its sidecar to its end: first_offset =
\* next(_read_offsets(...)), file.seek(first_offset); on a sidecar without
\* a line next() raises StopIteration, which ends the generator with
\* RuntimeError.  A ZIP archive yields every member.
AllSteps(format, file_paths) ==
    IF file_paths = <<>> THEN <<>>
    ELSE
    LET file_id == Head(file_paths).file_id
        count == Head(file_paths).count
        offsets == SidecarOffsets(count)
    IN  IF Compression(format) = "GZIP" /\ offsets = <<>>
        THEN <<RaisingStep(file_id)>>
        ELSE LET first_offset ==
                     IF Compression(format) = "GZIP" THEN offsets[1] ELSE 0
             IN  <<Step(file_id, TRUE,
                        [i \in 1..(count - first_offset) |->
                            first_offset + i - 1])>>
                 \o AllSteps(format, Tail(file_paths))

_file_iterator_all(format) == AllSteps(format, Iterator_file_paths(format))

\* Python's a % b for b # 0
PyMod(a, b) == IF b > 0 THEN a % b ELSE 0 - ((0 - a) % (0 - b))

in_slice(index, s) ==
    IF ~(s.start <= index /\ index < s.stop) THEN FALSE
    ELSE PyMod(index - s.start, s.step) = 0

overlaps_slice(index_start, index_end, s) ==
    Max(index_start, s.start) < Min(index_end, s.stop)

RECURSIVE SliceSteps(_, _, _, _)
\* the loop of _file_iterator_slice over file_paths with its index_offset
SliceSteps(format, file_paths, index_offset, s) ==
    IF file_paths = <<>> THEN <<>>
    ELSE
    LET file_id == Head(file_paths).file_id
        count == Head(file_paths).count
        file_indices == {file_index \in 0..(count - 1) :
                            in_slice(index_offset + file_index, s)}
    IN  IF ~overlaps_slice(index_offset, index_offset + count, s)
        THEN <<SliceStep(file_id, index_offset, FALSE, <<>>)>>
             \o SliceSteps(format, Tail(file_paths), index_offset + count, s)
        ELSE IF Compression(format) = "GZIP" /\ file_indices = {}
        \* "continue": the shard was opened, index_offset is not advanced
        THEN <<SliceStep(file_id, index_offset, TRUE, <<>>)>>
             \o SliceSteps(format, Tail(file_paths), index_offset, s)
        \* GZIP: the sparse stream delivers the selected records in ascending
        \* order; ZIP: the selected members are yielded in namelist order
        ELSE <<SliceStep(file_id, index_offset, TRUE, SortedSeq(file_indices))>>
             \o SliceSteps(format, Tail(file_paths), index_offset + count, s)

_file_iterator_slice(format, s) ==
    SliceSteps(format, Iterator_file_paths(format), 0, s)

\* ir_datasets.util.apply_sub_slice(slice(0, docs_count), key); an absent
\* component of a slice (None) is <<>>, a present one <<n>>
apply_sub_slice(n, key) ==
    [start |-> IF key.start = <<>> THEN 0
               ELSE IF key.start[1] >= 0 THEN Min(key.start[1], n)
               ELSE Max(n + key.start[1], 0),
     stop |-> IF key.stop = <<>> THEN n
              ELSE IF key.stop[1] >= 0 THEN Min(key.stop[1], n)
              ELSE Max(n + key.stop[1], 0),
     step |-> key.step]

\* slice(start, stop, step).indices(n) for present start and stop
SliceIndices(sl, n) ==
    LET step == IF sl.step = <<>> THEN 1 ELSE sl.step[1]
        lower == IF step > 0 THEN 0 ELSE 0 - 1
        upper == IF step > 0 THEN n ELSE n - 1
        Clip(v) == IF v < 0 THEN Max(v + n, lower) ELSE Min(v, upper)
    IN  [start |-> Clip(sl.start), stop |-> Clip(sl.stop), step |-> step]

(***************************************************************************)
(* _ClueWeb22Iterable.__iter__ over the steps of the view's file           *)
(* iterators, consumed to its end.                                         *)
(***************************************************************************)

RECURSIVE StepRecords(_, _)
\* read_records: the records the format's reader yields for the streams
StepRecords(format, steps) ==
    IF steps = <<>> THEN <<>>
    ELSE [k \in 1..Len(Head(steps).indices) |->
             Stored(format, DocIdOf(Head(steps).file_id, Head(steps).indices[k]))]
         \o StepRecords(format, Tail(steps))

RECURSIVE OpenedUntil(_, _)
\* the shards a file iterator has opened when it has been asked for its
\* first `pulls` records: it runs on to the step that delivers the record
\* asked for, or to its end
OpenedUntil(steps, pulls) ==
    IF steps = <<>> \/ pulls <= 0 THEN <<>>
    ELSE (IF Head(steps).opened THEN <<Head(steps).file_id>> ELSE <<>>)
         \o OpenedUntil(Tail(steps), pulls - Len(Head(steps).indices))

\* the k-th tuple of zip(*format_records)
TupleAt(view, records, k) ==
    IF view = "L" THEN [txt |-> records["txt"][k]]
    ELSE [txt |-> records["txt"][k], html |-> records["html"][k],
          inlink |-> records["inlink"][k], outlink |-> records["outlink"][k],
          vdom |-> records["vdom"][k]]

RECURSIVE CombineFrom(_, _, _, _, _)
\* the combiner's loop from tuple k on; an assert that fails ends it
CombineFrom(view, records, k, n, docs) ==
    IF k > n THEN [status |-> "ok", docs |-> docs, tuples |-> n]
    ELSE LET r == Combiner(view, TupleAt(view, records, k))
         IN  IF r.failed
             THEN [status |-> "AssertionError", docs |-> docs, tuples |-> k]
             ELSE CombineFrom(view, records, k + 1, n, Append(docs, r.doc))

RECURSIVE Shortest(_, _)
\* index of the first of the iterators (in the order of the formats) that
\* has only n records
Shortest(lengths, n) ==
    IF Head(lengths) = n THEN 1 ELSE 1 + Shortest(Tail(lengths), n)

Outcome(status, docs, opened) ==
    [status |-> status, docs |-> docs, opened |-> opened]

NothingOpened == [f \in AllFormats |-> <<>>]

\* the file generator ends with an error
Raises(steps) == steps # <<>> /\ steps[Len(steps)].raised

\* zip() asks every iterator in turn for a record and stops at the first
\* that has none; the iterators before it have been asked once more than
\* those after it.  When the file generator of that iterator ends with an
\* error, the error ends the iteration after the documents combined so far.
Iterate(view, steps) ==
    LET formats == Formats(view)
        records == [f \in FormatSet(view) |-> StepRecords(f, steps[f])]
        lengths == [i \in 1..Len(formats) |-> Len(records[formats[i]])]
        n == CHOOSE m \in {lengths[i] : i \in 1..Len(formats)} :
                 \A i \in 1..Len(formats) : m <= lengths[i]
        c == CombineFrom(view, records, 1, n, <<>>)
        first == Shortest(lengths, n)
        Pulls(i) == IF c.status # "ok" THEN c.tuples
                    ELSE IF i <= first THEN n + 1 ELSE n
        status == IF c.status = "ok" /\ Raises(steps[formats[first]])
                  THEN "RuntimeError" ELSE c.status
    IN  Outcome(status, c.docs,
                [f \in AllFormats |->
                    IF f \in FormatSet(view)
                    THEN OpenedUntil(steps[f],
                                     Pulls(CHOOSE i \in 1..Len(formats) : formats[i] = f))
                    ELSE <<>>])

\* iter(_ClueWeb22Iterator(docs))
FullIteration ==
    Iterate(rView, [f \in FormatSet(rView) |-> _file_iterator_all(f)])

\* _ClueWeb22Iterator.__getitem__(key) for a slice key
GetItem(key) ==
    LET s == SliceIndices(apply_sub_slice(docs_count, key), docs_count)
    IN  Iterate(rView, [f \in FormatSet(rView) |-> _file_iterator_slice(f, s)])

(***************************************************************************)
(* ClueWeb22Docstore                                                       *)
(***************************************************************************)

\* format_type.extension
Extension(format) ==
    IF format = "txt" \/ format = "inlink" \/ format = "outlink"
    THEN <<".", "j", "s", "o", "n", ".", "g", "z">>
    ELSE IF format = "html" THEN <<".", "w", "a", "r", "c", ".", "g", "z">>
    ELSE <<".", "z", "i", "p">>

\* doc_id_format_path, relative to the directory of the corpus
doc_id_format_path(format, doc_id) ==
    <<format, "/">> \o _fix_path(Path(doc_id), format) \o Extension(format)

RECURSIVE RunLength(_, _)
\* the length of the run of equal keys at the head of keys
RunLength(keys, key) ==
    IF keys = <<>> \/ Head(keys) # key THEN 0
    ELSE 1 + RunLength(Tail(keys), key)

RECURSIVE GroupBy(_, _)
\* itertools.groupby(doc_ids, key): the runs of consecutive identifiers
\* with the same key (keys[i] is the key of doc_ids[i])
GroupBy(doc_ids, keys) ==
    IF doc_ids = <<>> THEN <<>>
    ELSE LET n == RunLength(keys, Head(keys))
         IN  <<SubSeq(doc_ids, 1, n)>>
             \o GroupBy(SubSeq(doc_ids, n + 1, Len(doc_ids)),
                        SubSeq(keys, n + 1, Len(keys)))

FilePaths(raised, groups) == [raised |-> raised, groups |-> groups]

InLanguage(doc_id) == rLanguage = <<>> \/ doc_id.language = rLanguage[1]

\* _file_paths with the identifiers of another language left out
DocstoreFilePathsOfLanguage(format, doc_ids) ==
    LET valid == SelectSeq(doc_ids, InLanguage)
    IN  FilePaths(FALSE,
                  GroupBy(valid, [i \in 1..Len(valid) |->
                                     doc_id_format_path(format, valid[i])]))

\* ClueWeb22Docstore._file_paths; doc_ids is the set of identifiers in
\* its iteration order
Docstore_file_paths(format, doc_ids) ==
    IF rLanguage # <<>>
       /\ {i \in 1..Len(doc_ids) : doc_ids[i].language # rLanguage[1]} # {}
    THEN FilePaths(TRUE, <<>>)
    ELSE FilePaths(FALSE,
                   GroupBy(doc_ids, [i \in 1..Len(doc_ids) |->
                                        doc_id_format_path(format, doc_ids[i])]))

RECURSIVE LookupSteps(_, _, _)
\* the loop of ClueWeb22Docstore._file_iterator over the groups: GZIP
\* delivers the records of the set of indices in ascending order, ZIP the
\* members in the iteration order of the set of names
LookupSteps(format, groups, name_order) ==
    IF groups = <<>> THEN <<>>
    ELSE
    LET file_path_doc_ids == Head(groups)
        InGroup(d) == \E i \in 1..Len(file_path_doc_ids) : file_path_doc_ids[i] = d
        names == SelectSeq(name_order, InGroup)
    IN  <<Step(FileIdOf(file_path_doc_ids[1]), TRUE,
               IF Compression(format) = "GZIP"
               THEN SortedSeq({file_path_doc_ids[i].doc :
                                  i \in 1..Len(file_path_doc_ids)})
               ELSE [i \in 1..Len(names) |-> names[i].doc])>>
        \o LookupSteps(format, Tail(groups), name_order)

\* ClueWeb22Docstore.get_many_iter(doc_ids), consumed to its end.  set_order
\* is the iteration order of the set typed_doc_ids, name_order that of the
\* sets of member names
GetManyIter(doc_ids, set_order, name_order) ==
    IF \E s \in doc_ids : FromString(s).raised
    THEN Outcome("ValueError", <<>>, NothingOpened)
    ELSE IF Docstore_file_paths(Formats(rView)[1], set_order).raised
    THEN Outcome("ValueError", <<>>, NothingOpened)
    ELSE Iterate(rView,
                 [f \in FormatSet(rView) |->
                     LookupSteps(f, Docstore_file_paths(f, set_order).groups,
                                 name_order)])

(***************************************************************************)
(* Inputs of the identifier codec.                                         *)
(***************************************************************************)

DatasetSegments == {CLUEWEB22, <<"c", "w", "2", "2">>}

LanguageSegments ==
    { <<"d", "e">>, <<"z", "h", "_", "c", "h", "s">>, <<"x", "x">>, <<>> }

StreamSegments == { <<"0", "0">>, <<"9", "9">>, <<"+", "1">> }

SubdirectorySegments ==
    { <<"0", "0">>, <<"7", "9">>, <<"8", "0">>, <<"8", "1">>, <<" ", "8">>,
      <<"\r", "8">>, <<"", "8">> }

FileSegments ==
    { <<"0", "0">>, <<"7">>, <<"9", "9">>, <<"1", "0", "0">>, <<"1", "0", "1">>,
      <<"0", "_", "7">>, <<"x">> }

DocSegments ==
    { <<"0", "0", "0", "0", "0">>, <<"4", "2">>,
      <<"1", "0", "0", "0", "0", "0">>, <<"۴", "২">>, <<>> }

\* identifiers of four segments, well-formed or not
FourSegmentStrings ==
    { Join(<<ds, l \o st \o sd, f, d>>, "-") :
        ds \in DatasetSegments, l \in LanguageSegments, st \in StreamSegments,
        sd \in SubdirectorySegments, f \in FileSegments, d \in DocSegments }

\* identifiers with another number of segments
OtherStrings ==
    { <<>>,
      CLUEWEB22,
      Join(<<CLUEWEB22, <<"d", "e", "0", "0", "0", "0">>, <<"0", "0">> >>, "-"),
      Join(<<CLUEWEB22, <<"d", "e", "0", "0", "0", "0">>, <<"0", "0">>,
             <<"0", "0", "0", "0", "0">>, <<"0">> >>, "-"),
      Join(<<CLUEWEB22, <<"d", "e", "0", "0", "0", "0">>, <<"0", "0">>,
             <<>>, <<"5">> >>, "-") }

IdStrings == FourSegmentStrings \cup OtherStrings

\* identifiers with a known language and fields in range
DocIds ==
    { ClueWeb22DocId(l, st, sd, f, d) :
        l \in { <<"d", "e">>, <<"z", "h", "_", "c", "h", "s">>,
                <<"o", "t", "h", "e", "r">> },
        st \in {0, 9, 99}, sd \in {0, 79, 80}, f \in {0, 7, 99, 100},
        d \in {0, 42, 99999, 100000} }

(***************************************************************************)
(* Inputs of the readers: the lines, WARC records and ZIP members a shard  *)
(* can hold at one position.                                               *)
(***************************************************************************)

\* number of tuples the zip of the record iterators is followed for
MaxTuples == 2

RecordDocIds == {1, 2}

TxtLines ==
    { [ClueWeb22_ID |-> d, URL |-> u, URL_hash |-> h, Language |-> l,
       Clean_Text |-> "text"] :
        d \in RecordDocIds, u \in { <<"a">>, <<"a", "\n">>, <<"b">> },
        h \in {"h1", "h2"}, l \in {"de", "other"} }

HtmlRecords ==
    { [ClueWeb22_ID |-> d, WARC_Target_URI |-> u, URL_Hash |-> "h1",
       Language |-> l, payload |-> "html"] :
        d \in RecordDocIds, u \in { <<"a">>, <<"a", ",", "b">> },
        l \in {"de", "en"} }

JsonAnchors == << <<"u", "uh", "anchor text", "x", "en">> >>

BlankLines ==
    { [raw |-> <<"\n">>], [raw |-> <<" ", "\n">>], [raw |-> <<"\f", "", "\n">>] }

InlinkLines ==
    BlankLines \cup
    { [raw |-> <<"{", "}", "\n">>,
       json |-> [ClueWeb22_ID |-> d, url |-> u, urlhash |-> h,
                 anchors |-> JsonAnchors]] :
        d \in RecordDocIds, u \in { <<"a">>, <<"b">> }, h \in {"h1", "h2"} }

OutlinkLines ==
    BlankLines \cup
    { [raw |-> <<"{", "}", "\n">>,
       json |-> [ClueWeb22_ID |-> d, url |-> u, urlhash |-> h,
                 outlinks |-> JsonAnchors]] :
        d \in RecordDocIds, u \in { <<"a">>, <<"b">> }, h \in {"h1", "h2"} }

VdomMembers == {"vdom"}

NoRecord == [none |-> TRUE]

NoTuple ==
    [txt |-> NoRecord, html |-> NoRecord, inlink |-> NoRecord,
     outlink |-> NoRecord, vdom |-> NoRecord]

NoLinesRead == [txt |-> 0, html |-> 0, inlink |-> 0, outlink |-> 0, vdom |-> 0]

(***************************************************************************)
(* Idle values of each part of the state.                                  *)
(***************************************************************************)

CodecIdle ==
    /\ idPhase = "idle"
    /\ idSrcText = <<>>
    /\ idSrcId = NoDocId
    /\ idValue = RaiseValueError
    /\ idText = <<>>

CombIdle ==
    /\ cSubset = "L"
    /\ cStatus = "done"
    /\ cPc = 1
    /\ cLine = NoTuple
    /\ cTuple = NoTuple
    /\ cLinesRead = NoLinesRead
    /\ cEmitted = 0
    /\ cDoc = NoDoc
    /\ cLog = <<>>
    /\ cPrevWarned = FALSE

(***************************************************************************)
(* Inputs of the record-count catalogue: per file the count the TXT        *)
(* catalogue lists and the count the other catalogues list, which may be   *)
(* 0, and -1 for a file a catalogue does not list.                         *)
(***************************************************************************)

MaxCatalogFiles == 2

MaxCatalogCount == 2

De == <<"d", "e">>

En == <<"e", "n">>

\* file identifiers in the order of the sorted counts files and their rows
SortedFileIds ==
    <<ClueWeb22FileId(De, 0, 0, 0), ClueWeb22FileId(En, 0, 0, 0),
      ClueWeb22FileId(En, 0, 0, 1), ClueWeb22FileId(En, 0, 1, 0),
      ClueWeb22FileId(En, 1, 0, 0)>>

RECURSIVE RowsOf(_, _)
\* the rows of a catalogue listing file i with count counts[i] >= 0: a
\* row of the CSV file is yielded whatever its count
RowsOf(counts, i) ==
    IF i > Len(counts) THEN <<>>
    ELSE IF counts[i] >= 0
         THEN <<Row(SortedFileIds[i], counts[i])>> \o RowsOf(counts, i + 1)
         ELSE RowsOf(counts, i + 1)

CatalogOf(txt_counts, other_counts) ==
    [f \in AllFormats |->
        IF f = "txt" THEN RowsOf(txt_counts, 1) ELSE RowsOf(other_counts, 1)]

CountVectors(n, max) == [1..n -> (0 - 1)..max]

Catalogs ==
    {CatalogOf(t, o) :
        t \in CountVectors(MaxCatalogFiles, MaxCatalogCount),
        o \in CountVectors(MaxCatalogFiles, MaxCatalogCount)}

ReaderLanguages == {<<>>, <<En>>}

\* ClueWeb22Docs.__init__: the view is one of the subset's views
ReaderConfigs ==
    {c \in [subset : Subsets, view : Subsets, language : ReaderLanguages,
            set_order : AllFormats] :
        /\ c.view \in SubsetViews(c.subset)
        /\ IF DiffFormats(c.subset) = {} THEN c.set_order = "html"
           ELSE c.set_order \in DiffFormats(c.subset)}

NoOp ==
    /\ opKind = "none"
    /\ opKey = <<>>
    /\ opStatus = "ok"
    /\ opCount = 0
    /\ opDocs = <<>>
    /\ opOpened = [f \in AllFormats |-> <<>>]

Configured(c) ==
    /\ rSubset = c.subset
    /\ rView = c.view
    /\ rLanguage = c.language
    /\ rSetOrder = c.set_order

ReaderIdle ==
    /\ catalog = [f \in AllFormats |-> <<>>]
    /\ sidecarEnd = FALSE
    /\ rSubset = "L"
    /\ rView = "L"
    /\ rLanguage = <<>>
    /\ rSetOrder = "txt"
    /\ opKind = "none"
    /\ opKey = <<>>
    /\ opStatus = "ok"
    /\ opCount = 0
    /\ opDocs = <<>>
    /\ opOpened = [f \in AllFormats |-> <<>>]

StreamIdle ==
    /\ sKind = "none"
    /\ sKey = <<>>
    /\ sPhase = "none"
    /\ sPc = 0
    /\ sPulled = 0
    /\ sGen = [f \in AllFormats |-> "new"]
    /\ sWalked = [f \in AllFormats |-> 0]
    /\ sRead = [f \in AllFormats |-> 0]
    /\ sOpen = [f \in AllFormats |-> {}]
    /\ sAlive = {}
    /\ sRefs = {}

RegistryIdle == registered = {}

(***************************************************************************)
(* The identifier codec as a state machine: a caller parses a string and   *)
(* formats the result, or formats an identifier and parses the result.     *)
(***************************************************************************)


\* ClueWeb22DocId.from_string(s)
CallFromString ==
    /\ idPhase = "idle"
    /\ \E s \in IdStrings :
        /\ idPhase' = "parsed"
        /\ idSrcText' = s
        /\ idSrcId' = NoDocId
        /\ idValue' = FromString(s)
        /\ idText' = <<>>
        /\ UNCHANGED othersOfCodec

\* str(d) of the identifier from_string returned
CallStrOfParsed ==
    /\ idPhase = "parsed"
    /\ ~idValue.raised
    /\ idPhase' = "parsed_str"
    /\ idText' = Str(idValue.id)
    /\ UNCHANGED <<idSrcText, idSrcId, idValue>>
    /\ UNCHANGED othersOfCodec

\* str(d)
CallStr ==
    /\ idPhase = "idle"
    /\ \E d \in DocIds :
        /\ idPhase' = "formatted"
        /\ idSrcId' = d
        /\ idSrcText' = <<>>
        /\ idText' = Str(d)
        /\ idValue' = RaiseValueError
        /\ UNCHANGED othersOfCodec

\* ClueWeb22DocId.from_string(str(d))
CallFromStringOfStr ==
    /\ idPhase = "formatted"
    /\ idPhase' = "formatted_parsed"
    /\ idValue' = FromString(idText)
    /\ UNCHANGED <<idSrcText, idSrcId, idText>>
    /\ UNCHANGED othersOfCodec

InitDocId == CodecIdle /\ CombIdle /\ ReaderIdle /\ RegistryIdle /\ StreamIdle

NextDocId ==
    \/ CallFromString
    \/ CallStrOfParsed
    \/ CallStr
    \/ CallFromStringOfStr

SpecDocId == InitDocId /\ [][NextDocId]_vars

(***************************************************************************)
(* Claims about the identifier codec (properties of SpecDocId).           *)
(***************************************************************************)

\* C4 (as stated): parsing and formatting are mutually inverse:
\* from_string(str(d)) = d for every identifier d with a known language and
\* fields in range, and str(from_string(s)) = s for every string s that
\* from_string accepts.
C4_MutuallyInverse ==
    /\ idPhase = "formatted_parsed" => (~idValue.raised /\ idValue.id = idSrcId)
    /\ idPhase = "parsed_str" => idText = idSrcText

\* the classes of identifiers C5 lists
HasFourSegments(s) == Len(Split(s, "-")) = 4

WrongDataset(s) == Split(s, "-")[1] # CLUEWEB22

UnknownLanguage(s) == DropLastN(Split(s, "-")[2], 4) \notin LanguageIds

SubdirectoryTooLarge(s) ==
    /\ PyIntOk(LastN(Split(s, "-")[2], 2))
    /\ PyInt(LastN(Split(s, "-")[2], 2)) > 80

FileTooLarge(s) ==
    /\ PyIntOk(Split(s, "-")[3])
    /\ PyInt(Split(s, "-")[3]) > 100

MustBeRejected(s) ==
    IF ~HasFourSegments(s) THEN TRUE
    ELSE \/ WrongDataset(s)
         \/ UnknownLanguage(s)
         \/ SubdirectoryTooLarge(s)
         \/ FileTooLarge(s)

\* C5: from_string raises ValueError, and produces no ClueWeb22DocId, for
\* every identifier that does not split on '-' into exactly four segments,
\* whose first segment is not 'clueweb22', whose language part is not a
\* known language id, whose subdirectory is greater than 80, or whose file
\* is greater than 100.
C5_RejectsMalformed ==
    (idPhase = "parsed" /\ MustBeRejected(idSrcText))
        => (idValue.raised /\ idValue.id = NoDocId)

\* C5 witness: an identifier that is well-formed but for its file number,
\* which is greater than 100, has been handed to from_string and rejected.
C5_Witness ==
    /\ idPhase = "parsed"
    /\ HasFourSegments(idSrcText)
    /\ ~WrongDataset(idSrcText)
    /\ ~UnknownLanguage(idSrcText)
    /\ ~SubdirectoryTooLarge(idSrcText)
    /\ FileTooLarge(idSrcText)
    /\ PyIntOk(Split(idSrcText, "-")[4])
    /\ idValue.raised


\* C28: every ClueWeb22DocId that from_string returns has its stream in
\* 0..99, its subdirectory in 0..79, its file in 0..99 and a doc that is
\* not negative.
C28_ParsedFieldsInRange ==
    (idPhase \in {"parsed", "formatted_parsed"} /\ ~idValue.raised)
        => /\ idValue.id.stream \in 0..99
           /\ idValue.id.subdirectory \in 0..(_MAX_SUBDIRECTORIES_PER_STREAM - 1)
           /\ idValue.id.file \in 0..(_MAX_FILES_PER_SUBDIRECTORY - 1)
           /\ idValue.id.doc >= 0

(***************************************************************************)
(* _ClueWeb22Iterable.__iter__: the combiner zips the record iterators of  *)
(* the view's formats.  For each tuple zip() pulls one record from every   *)
(* iterator in the order of the formats; a pull runs the format's reader   *)
(* until it yields; then the body of the combiner's loop runs.             *)
(***************************************************************************)

InitCombiner ==
    /\ StreamIdle
    /\ RegistryIdle
    /\ CodecIdle
    /\ ReaderIdle
    /\ cSubset \in {"L", "A", "B"}
    /\ cStatus = "running"
    /\ cPc = 1
    /\ cLine = NoTuple
    /\ cTuple = NoTuple
    /\ cLinesRead = NoLinesRead
    /\ cEmitted = 0
    /\ cDoc = NoDoc
    /\ cLog = <<>>
    /\ cPrevWarned = FALSE

Pulling(format) ==
    /\ cStatus = "running"
    /\ cPc <= Len(Formats(cSubset))
    /\ Formats(cSubset)[cPc] = format

\* the reader of `format` has consumed `line` and yielded `records`; zip()
\* moves on to the next format once the reader has yielded a record
Pulled(format, line, records) ==
    /\ cLine' = [cLine EXCEPT ![format] = line]
    /\ cLinesRead' = [cLinesRead EXCEPT ![format] = @ + 1]
    /\ IF Len(records) = 0
       THEN UNCHANGED <<cTuple, cPc>>
       ELSE /\ cTuple' = [cTuple EXCEPT ![format] = records[1]]
            /\ cPc' = cPc + 1
    /\ UNCHANGED <<cSubset, cStatus, cEmitted, cDoc, cLog, cPrevWarned>>
    /\ UNCHANGED othersOfComb

ReadTxt ==
    /\ Pulling("txt")
    /\ \E line \in TxtLines : Pulled("txt", line, _read_txt(line))

ReadHtml ==
    /\ Pulling("html")
    /\ \E record \in HtmlRecords : Pulled("html", record, _read_html(record))

ReadInlink ==
    /\ Pulling("inlink")
    /\ \E line \in InlinkLines : Pulled("inlink", line, _read_inlink(line))

ReadOutlink ==
    /\ Pulling("outlink")
    /\ \E line \in OutlinkLines : Pulled("outlink", line, _read_outlink(line))

ReadVdom ==
    /\ Pulling("vdom")
    /\ \E member \in VdomMembers : Pulled("vdom", member, _read_vdom(member))

\* zip(strict=True): exhaustion after a record has been pulled for the
\* tuple raises ValueError
StopIterationStrict ==
    /\ cStatus = "running"
    /\ cPc <= Len(Formats(cSubset))
    /\ cStatus' = (IF cPc > 1 THEN "failed" ELSE "done")
    /\ UNCHANGED <<cSubset, cPc, cLine, cTuple, cLinesRead, cEmitted, cDoc, cLog,
                   cPrevWarned>>
    /\ UNCHANGED othersOfComb

\* the iterator zip() pulls from is exhausted: zip() stops, the combiner's
\* loop ends and the records already pulled for this tuple are dropped
StopIteration ==
    /\ cStatus = "running"
    /\ cPc <= Len(Formats(cSubset))
    /\ cStatus' = "done"
    /\ UNCHANGED <<cSubset, cPc, cLine, cTuple, cLinesRead, cEmitted, cDoc, cLog,
                   cPrevWarned>>
    /\ UNCHANGED othersOfComb

\* the body of the combiner's loop for the tuple just pulled
Combine ==
    /\ cStatus = "running"
    /\ cPc = Len(Formats(cSubset)) + 1
    /\ cLog' = Combiner(cSubset, cTuple).log
    /\ cDoc' = Combiner(cSubset, cTuple).doc
    /\ IF Combiner(cSubset, cTuple).failed
       THEN cStatus' = "failed" /\ UNCHANGED cEmitted
       ELSE cStatus' = "yielded" /\ cEmitted' = cEmitted + 1
    /\ UNCHANGED <<cSubset, cPc, cLine, cTuple, cLinesRead, cPrevWarned>>
    /\ UNCHANGED othersOfComb

\* the consumer asks for the next document: the generator resumes after
\* its yield and zip() starts the next tuple
NextTuple ==
    /\ cStatus = "yielded"
    /\ cEmitted < MaxTuples
    /\ cStatus' = "running"
    /\ cPc' = 1
    /\ cLine' = NoTuple
    /\ cTuple' = NoTuple
    /\ cDoc' = NoDoc
    /\ cLog' = <<>>
    /\ cPrevWarned' = (cPrevWarned \/ \E i \in 1..Len(cLog) : cLog[i].level = "warn")
    /\ UNCHANGED <<cSubset, cLinesRead, cEmitted>>
    /\ UNCHANGED othersOfComb

NextCombiner ==
    \/ ReadTxt
    \/ ReadHtml
    \/ ReadInlink
    \/ ReadOutlink
    \/ ReadVdom
    \/ StopIteration
    \/ Combine
    \/ NextTuple

SpecCombiner == InitCombiner /\ [][NextCombiner]_vars

(***************************************************************************)
(* Claims about the combiners (properties of SpecCombiner).               *)
(***************************************************************************)

ViewAB == cSubset \in {"A", "B"}

\* the body of the combiner's loop has run on cTuple
Combined ==
    /\ cPc = Len(Formats(cSubset)) + 1
    /\ cStatus \in {"yielded", "failed"}

DocIdMismatch(t) ==
    \/ t.txt.doc_id # t.html.doc_id
    \/ ~t.inlink.null /\ t.inlink.doc_id # t.html.doc_id
    \/ ~t.outlink.null /\ t.outlink.doc_id # t.html.doc_id

\* the part of s before its first c (s contains c)
PrefixBeforeFirst(s, c) ==
    SubSeq(s, 1, (CHOOSE i \in 1..Len(s) :
                     s[i] = c /\ \A j \in 1..(i - 1) : s[j] # c) - 1)

UrlMismatchTolerated(t) ==
    /\ t.txt.url # t.html.url
    /\ Contains(t.html.url, ",")
    /\ PrefixBeforeFirst(t.html.url, ",") = t.txt.url

UrlMismatchFatal(t) == t.txt.url # t.html.url /\ ~UrlMismatchTolerated(t)

LanguageMismatch(t) ==
    t.txt.language # "other" /\ t.txt.language # t.html.language

Logged(level, what, format) ==
    \E i \in 1..Len(cLog) : cLog[i] = LogEntry(level, what, format)

C7_Emitted ==
    (ViewAB /\ Combined) =>
        /\ cStatus = "yielded" => ~DocIdMismatch(cTuple)
        /\ DocIdMismatch(cTuple) => (cStatus = "failed" /\ cDoc.type = "none")

C7_NothingAfterFailure ==
    cStatus = "failed" =>
        (cStatus' = "failed" /\ cEmitted' = cEmitted /\ cDoc' = cDoc)

\* C7: in the A and B combiners a document is emitted for a tuple only if
\* txt.doc_id equals html.doc_id and every non-null INLINK and OUTLINK
\* record has the doc_id of the HTML record; on the first tuple that
\* violates this the combiner fails, emitting no document for that tuple
\* nor for any later one.
C7_DocIdMismatchIsFatal == []C7_Emitted /\ [][C7_NothingAfterFailure]_vars

\* C7 witness: the combiner of A has failed on its second tuple, whose
\* INLINK record is not null and carries another doc_id than the HTML
\* record, the TXT doc_id being the HTML one.
C7_Witness ==
    /\ cSubset = "A"
    /\ Combined
    /\ cStatus = "failed"
    /\ cEmitted = 1
    /\ cTuple.txt.doc_id = cTuple.html.doc_id
    /\ ~cTuple.inlink.null
    /\ cTuple.inlink.doc_id # cTuple.html.doc_id

\* C8: in the A and B combiners a TXT/HTML URL mismatch is fatal unless the
\* HTML URL contains ',' and its prefix before the first ',' equals the TXT
\* URL; in that case the mismatch is logged at debug level and the document
\* is emitted (no other fatal mismatch being present) with the HTML URL.
C8_UrlMismatch ==
    (ViewAB /\ Combined) =>
        /\ UrlMismatchFatal(cTuple) => (cStatus = "failed" /\ cDoc.type = "none")
        /\ (UrlMismatchTolerated(cTuple) /\ cTuple.txt.doc_id = cTuple.html.doc_id)
               => Logged("debug", "url", "txt")
        /\ (/\ UrlMismatchTolerated(cTuple)
            /\ ~DocIdMismatch(cTuple)
            /\ ~LanguageMismatch(cTuple))
               => (cStatus = "yielded" /\ cDoc.url = cTuple.html.url)

\* C8 witness: the B combiner has emitted a document whose HTML URL is
\* "a,b" while the TXT URL is "a".
C8_Witness ==
    /\ cSubset = "B"
    /\ cStatus = "yielded"
    /\ cTuple.txt.url = <<"a">>
    /\ cTuple.html.url = <<"a", ",", "b">>
    /\ cDoc.url = <<"a", ",", "b">>
    /\ Logged("debug", "url", "txt")

FatalMismatch(t) ==
    DocIdMismatch(t) \/ UrlMismatchFatal(t) \/ LanguageMismatch(t)

LinkWarnings(format, link, html) ==
    ~link.null =>
        /\ link.url # html.url => Logged("warn", "url", format)
        /\ link.url_hash # html.url_hash => Logged("warn", "url_hash", format)

\* C9: in the A and B combiners a URL-hash mismatch between TXT and HTML,
\* and a URL or URL-hash mismatch between a non-null INLINK/OUTLINK record
\* and HTML, never stop the iteration: the combiner fails only on a doc_id,
\* strict-URL or language mismatch; otherwise each such mismatch is logged
\* as a warning and the document is emitted with the HTML url_hash, the
\* generator staying resumable for the following tuples.
C9_HashMismatchNotFatal ==
    (ViewAB /\ Combined) =>
        /\ cStatus = "failed" => FatalMismatch(cTuple)
        /\ ~FatalMismatch(cTuple) =>
            /\ cStatus = "yielded"
            /\ cDoc.url_hash = cTuple.html.url_hash
            /\ cTuple.txt.url_hash # cTuple.html.url_hash
                   => Logged("warn", "url_hash", "txt")
            /\ LinkWarnings("inlink", cTuple.inlink, cTuple.html)
            /\ LinkWarnings("outlink", cTuple.outlink, cTuple.html)
            /\ cEmitted < MaxTuples => ENABLED NextTuple

\* C9 witness: after a tuple that logged a warning, the A combiner has
\* emitted a second document, for a tuple whose TXT url_hash, INLINK URL
\* and OUTLINK url_hash all differ from the HTML record's.
C9_Witness ==
    /\ cSubset = "A"
    /\ cStatus = "yielded"
    /\ cEmitted = 2
    /\ cPrevWarned
    /\ cTuple.txt.url_hash # cTuple.html.url_hash
    /\ ~cTuple.inlink.null /\ cTuple.inlink.url # cTuple.html.url
    /\ ~cTuple.outlink.null /\ cTuple.outlink.url_hash # cTuple.html.url_hash
    /\ cDoc.url_hash = cTuple.html.url_hash

IsBlank(line) == \A i \in 1..Len(line.raw) : IsSpace(line.raw[i])

\* C10: a blank line of an INLINK or OUTLINK shard produces exactly one null
\* record: whenever a document is emitted every format has consumed as many
\* lines as documents were emitted, so later records keep their positions,
\* and the document emitted for a blank INLINK (OUTLINK) line has an empty
\* inlink_anchors (outlink_anchors) list.
C10_BlankLinePlaceholder ==
    (ViewAB /\ cStatus = "yielded") =>
        /\ \A f \in {"txt", "html", "inlink", "outlink", "vdom"} :
               cLinesRead[f] = cEmitted
        /\ IsBlank(cLine.inlink) =>
               (cTuple.inlink.null /\ cDoc.inlink_anchors = <<>>)
        /\ IsBlank(cLine.outlink) =>
               (cTuple.outlink.null /\ cDoc.outlink_anchors = <<>>)
        /\ ~IsBlank(cLine.inlink) => cDoc.inlink_anchors # <<>>
        /\ ~IsBlank(cLine.outlink) => cDoc.outlink_anchors # <<>>

\* C10 witness: the second document of an A view has been emitted, its
\* INLINK line blank and its OUTLINK line not.
C10_Witness ==
    /\ cSubset = "A"
    /\ cStatus = "yielded"
    /\ cEmitted = 2
    /\ cLine.inlink.raw = <<" ", "\n">>
    /\ ~IsBlank(cLine.outlink)
    /\ cDoc.inlink_anchors = <<>>
    /\ Len(cDoc.outlink_anchors) = 1


\* the number of records the record iterator of a format has delivered:
\* every reader yields one record per line (per WARC record, per member)
Delivered(format) == cLinesRead[format]

\* the format whose iterator zip() found exhausted
ExhaustedAt == Formats(cSubset)[cPc]

\* zip() has found an iterator exhausted and the combiner's loop has ended
ZipEnded == cStatus = "done" /\ cPc <= Len(Formats(cSubset))

C27_EmittedShortest ==
    (ViewAB /\ ZipEnded) =>
        /\ \A f \in FormatSet(cSubset) : cEmitted <= Delivered(f)
        /\ cEmitted = Delivered(ExhaustedAt)
        /\ \A i \in 1..(cPc - 1) :
               /\ Delivered(Formats(cSubset)[i]) = cEmitted + 1
               /\ cTuple[Formats(cSubset)[i]] # NoRecord
        /\ cDoc = NoDoc

C27_EndsNormally ==
    (ViewAB /\ cStatus = "running" /\ cPc <= Len(Formats(cSubset))
        /\ cLinesRead' = cLinesRead)
        => (cStatus' = "done" /\ cEmitted' = cEmitted /\ cDoc' = NoDoc)

\* C27: when the record iterators of the formats deliver different numbers
\* of records, the A and B combiners emit exactly as many documents as the
\* shortest iterator delivers and then end without raising; the records
\* already pulled from the formats listed before the exhausted one are
\* discarded with the incomplete tuple.
C27_UnevenIteratorsEndNormally ==
    []C27_EmittedShortest /\ [][C27_EndsNormally]_vars

\* C27 witness: the combiner of A has emitted one document and ended when
\* the INLINK iterator was exhausted, after a second TXT and a second HTML
\* record had been pulled.
C27_Witness ==
    /\ cSubset = "A"
    /\ ZipEnded
    /\ ExhaustedAt = "inlink"
    /\ cEmitted = 1
    /\ Delivered("txt") = 2
    /\ Delivered("html") = 2
    /\ Delivered("inlink") = 1
    /\ cTuple.txt # NoRecord


\* the identifier a record has by its position: the k-th line of the TXT
\* stream is the record of document k
PositionalDocId == cLinesRead["txt"]

\* C24: the doc_id of every document emitted, by the L, A and B combiners
\* alike, is the identifier derived from the position of its records; a
\* document whose doc_id differs from it is not emitted.
C24_EmittedDocIdIsPositional ==
    cStatus = "yielded" => cDoc.doc_id = PositionalDocId

(***************************************************************************)
(* The record counts of a reader over a catalogue.                         *)
(***************************************************************************)

InitCounts ==
    /\ StreamIdle
    /\ RegistryIdle
    /\ CodecIdle
    /\ CombIdle
    /\ \E c \in ReaderConfigs : Configured(c)
    /\ catalog \in Catalogs
    /\ sidecarEnd = FALSE
    /\ NoOp

\* ClueWeb22Docs.docs_count()
CallDocsCount ==
    /\ opKind = "none"
    /\ opKind' = "count"
    /\ opCount' = docs_count
    /\ UNCHANGED <<opKey, opStatus, opDocs, opOpened, diskVars, othersOfReader>>

\* list(ClueWeb22Docs.record_counts(format))
CallRecordCounts ==
    /\ opKind = "none"
    /\ \E format \in FormatSet(rView) :
        /\ opKind' = "record_counts"
        /\ opKey' = <<format>>
        /\ opDocs' = record_counts(format)
    /\ UNCHANGED <<opStatus, opCount, opOpened, diskVars, othersOfReader>>

NextCounts == CallDocsCount \/ CallRecordCounts

SpecCounts == InitCounts /\ [][NextCounts]_vars

RECURSIVE ListedTotal(_, _)
\* the counts the first i rows of the catalogue of `format` list for the
\* reader's language
ListedTotal(format, i) ==
    IF i = 0 THEN 0
    ELSE ListedTotal(format, i - 1)
         + (IF rLanguage = <<>> \/ catalog[format][i].file_id.language = rLanguage[1]
            THEN catalog[format][i].count ELSE 0)

CatalogTotal(format) == ListedTotal(format, Len(catalog[format]))

\* C3 as stated: for a reader whose view S differs from its subset,
\* docs_count() is the sum of the per-file counts of a diff format of S.
C3_ViewDiffFormat ==
    (opKind = "count" /\ rView # rSubset) =>
        \E f \in (IF rView = "L" THEN {"txt"}
                  ELSE {"html", "inlink", "outlink", "vdom"}) :
            opCount = CatalogTotal(f)

\* C3 amended: docs_count() is the sum of the per-file counts of a diff
\* format of the reader's own subset, whatever the view, and of the HTML
\* format when the subset has no diff format of its own (B).
C3_SubsetDiffFormat ==
    opKind = "count" =>
        \E f \in (IF rSubset = "L" THEN {"txt"}
                  ELSE IF rSubset = "A" THEN {"html", "inlink", "outlink", "vdom"}
                  ELSE {"html"}) :
            opCount = CatalogTotal(f)

\* a B reader viewed as L and filtered to a language has counted the rows
\* of the HTML catalogue, which differ from those of the TXT catalogue
C3_Witness ==
    /\ opKind = "count"
    /\ rView = "L"
    /\ rSubset = "B"
    /\ rLanguage # <<>>
    /\ opCount > 0
    /\ opCount # CatalogTotal("txt")
    /\ opCount # SumCounts(catalog["html"])

(***************************************************************************)
(* Inputs of the iterator and of the document store: corpora whose         *)
(* catalogues agree in every format, slice keys and requests.              *)
(***************************************************************************)

MaxShards == 3

MaxCount == 2

MaxStart == 4

MaxStep == 3

MaxRequest == 3

Corpora ==
    {CatalogOf(c, c) : c \in CountVectors(MaxShards, MaxCount)}

FullCorpora ==
    {CatalogOf(c, c) : c \in [1..MaxShards -> {MaxCount}]}

IteratorConfigs == {c \in ReaderConfigs : c.set_order \in {"txt", "html"}}

\* an optional value: <<>> is None
Optional(S) == {<<>>} \cup {<<x>> : x \in S}

SliceKeys ==
    [start : Optional((0 - 1)..MaxStart),
     stop : Optional((0 - 1)..(MaxStart + 2)),
     step : Optional({0 - 1} \cup 1..MaxStep)]

\* the first and the last document of a shard of each language
RequestIds ==
    {DocIdOf(file_id, d) : file_id \in {SortedFileIds[1], SortedFileIds[2]},
                           d \in {0, MaxCount - 1}}

\* "clueweb22-en0000-00-0", another spelling of clueweb22-en0000-00-00000
ShortSpelling ==
    <<"c", "l", "u", "e", "w", "e", "b", "2", "2", "-", "e", "n", "0", "0",
      "0", "0", "-", "0", "0", "-", "0">>

\* "clueweb22-en0000-00", which from_string rejects
NoDocSegment ==
    <<"c", "l", "u", "e", "w", "e", "b", "2", "2", "-", "e", "n", "0", "0",
      "0", "0", "-", "0", "0">>

RequestStrings ==
    {Str(d) : d \in RequestIds} \cup {ShortSpelling, NoDocSegment}

Requests == {r \in SUBSET RequestStrings : Cardinality(r) <= MaxRequest}

\* the orders in which a set can be iterated
Orders(S) ==
    {o \in [1..Cardinality(S) -> S] :
        \A i, j \in 1..Cardinality(S) : o[i] = o[j] => i = j}

\* the set typed_doc_ids of get_many_iter
Typed(doc_ids) ==
    {FromString(s).id : s \in {t \in doc_ids : ~FromString(t).raised}}

\* the shard of doc_id is on disk and holds a record for it
OnDisk(doc_id) ==
    \E i \in 1..Len(catalog["txt"]) :
        /\ catalog["txt"][i].file_id = FileIdOf(doc_id)
        /\ doc_id.doc < catalog["txt"][i].count

Returned(outcome) ==
    /\ opStatus' = outcome.status
    /\ opDocs' = outcome.docs
    /\ opOpened' = outcome.opened

(***************************************************************************)
(* The iterator of a reader over a corpus.                                 *)
(***************************************************************************)

Init ==
    /\ StreamIdle
    /\ RegistryIdle
    /\ CodecIdle
    /\ CombIdle
    /\ \E c \in IteratorConfigs : Configured(c)
    /\ catalog \in Corpora
    /\ sidecarEnd \in BOOLEAN
    /\ NoOp

\* list(docs.docs_iter())
CallIter ==
    /\ opKind = "none"
    /\ opKind' = "iter"
    /\ Returned(FullIteration)
    /\ UNCHANGED <<opKey, opCount, diskVars, othersOfReader>>

\* list(docs.docs_iter()[start:stop:step])
CallGetItem ==
    /\ opKind = "none"
    /\ \E key \in SliceKeys :
        /\ opKind' = "slice"
        /\ opKey' = key
        /\ Returned(GetItem(key))
    /\ UNCHANGED <<opCount, diskVars, othersOfReader>>

Next == CallIter \/ CallGetItem

Spec == Init /\ [][Next]_vars

(***************************************************************************)
(* The document store of a reader over a corpus.                           *)
(***************************************************************************)

InitLookup ==
    /\ StreamIdle
    /\ RegistryIdle
    /\ CodecIdle
    /\ CombIdle
    /\ \E c \in IteratorConfigs : Configured(c)
    /\ catalog \in FullCorpora
    /\ sidecarEnd \in BOOLEAN
    /\ NoOp

\* list(docs.docs_store().get_many_iter(doc_ids)) for identifiers on disk;
\* the sets of member names are only iterated for a view with a ZIP format
CallGetManyIter ==
    /\ opKind = "none"
    /\ \E doc_ids \in Requests :
        LET typed == Typed(doc_ids)
        IN  /\ \A d \in typed : OnDisk(d)
            /\ \E set_order \in Orders(typed) :
                \E name_order \in (IF "vdom" \in FormatSet(rView)
                                   THEN Orders(typed) ELSE {set_order}) :
                    /\ opKind' = "get_many"
                    /\ opKey' = doc_ids
                    /\ Returned(GetManyIter(doc_ids, set_order, name_order))
    /\ UNCHANGED <<opCount, diskVars, othersOfReader>>

NextLookup == CallGetManyIter

SpecLookup == InitLookup /\ [][NextLookup]_vars

(***************************************************************************)
(* Claims about the iterator (properties of Spec).                        *)
(***************************************************************************)

RECURSIVE Positions(_, _, _)
\* start, start + step, ... below stop
Positions(start, stop, step) ==
    IF start >= stop THEN <<>>
    ELSE <<start>> \o Positions(start + step, stop, step)

\* list[start:stop:step] of Python for a step that is absent or positive
ListSlice(list, key) ==
    LET n == Len(list)
        Bound(v, default) ==
            IF v = <<>> THEN default
            ELSE IF v[1] < 0 THEN Max(v[1] + n, 0) ELSE Min(v[1], n)
        p == Positions(Bound(key.start, 0), Bound(key.stop, n),
                       IF key.step = <<>> THEN 1 ELSE key.step[1])
    IN  [i \in 1..Len(p) |-> list[p[i] + 1]]

\* C1: a slice with a positive step yields the documents at positions
\* start, start+step, ... < stop of the full iteration, in that order.
C1_SliceIsListSlice ==
    (opKind = "slice" /\ (opKey.step = <<>> \/ opKey.step[1] > 0)) =>
        /\ opStatus = "ok"
        /\ opDocs = ListSlice(FullIteration.docs, opKey)

(***************************************************************************)
(* Claims about the document store (properties of SpecLookup).            *)
(***************************************************************************)

\* the language a string names: its second segment less the four digits
LanguageNamed(s) == DropLastN(Split(s, "-")[2], 4)

\* the identifiers a request names, when every string of it is valid
Requested(doc_ids) == {FromString(s).id : s \in doc_ids}

RECURSIVE Preceding(_, _)
\* the sum of the counts of the rows before the row of file_id
Preceding(rows, file_id) ==
    IF rows = <<>> \/ Head(rows).file_id = file_id THEN 0
    ELSE Head(rows).count + Preceding(Tail(rows), file_id)

GlobalPosition(d) == Preceding(_record_counts("txt"), FileIdOf(d)) + d.doc

\* C2: for valid identifiers of documents the reader iterates,
\* get_many_iter yields one document per distinct identifier and no other,
\* each the element of the full iteration at the identifier's global
\* position.
C2_ExactlyTheRequested ==
    (/\ opKind = "get_many"
     /\ \A s \in opKey : ~FromString(s).raised
     /\ \A d \in Requested(opKey) : InLanguage(d)) =>
        /\ opStatus = "ok"
        /\ Len(opDocs) = Cardinality(Requested(opKey))
        /\ \A d \in Requested(opKey) :
               \E i \in 1..Len(opDocs) :
                   opDocs[i] = FullIteration.docs[GlobalPosition(d) + 1]

\* C6: a request with an identifier of another language than the reader's
\* is rejected as a whole: ValueError, no document, no shard opened.
C6_LanguageMismatchRejectsAll ==
    (/\ opKind = "get_many"
     /\ rLanguage # <<>>
     /\ \E s \in opKey : LanguageNamed(s) # rLanguage[1]) =>
        /\ opStatus = "ValueError"
        /\ opDocs = <<>>
        /\ \A f \in AllFormats : opOpened[f] = <<>>

\* a request of valid identifiers, one of the reader's language and one of
\* another, has been rejected
C6_Witness ==
    /\ opKind = "get_many"
    /\ rLanguage = <<En>>
    /\ \A s \in opKey : ~FromString(s).raised
    /\ \E s, t \in opKey : LanguageNamed(s) = En /\ LanguageNamed(t) = De
    /\ opStatus = "ValueError"



\* the request is valid: every string is an identifier of the reader's
\* language
ValidRequest ==
    /\ opKind = "get_many"
    /\ \A s \in opKey : ~FromString(s).raised
    /\ \A d \in Requested(opKey) : InLanguage(d)

\* C22: in a lookup each shard file is opened exactly once per format, also
\* when the identifiers of one shard are not adjacent in the request: no
\* file occurs twice among the files a format opened, and every shard that
\* holds a requested document is among them.
C22_EachShardOpenedOnce ==
    ValidRequest =>
        \A f \in FormatSet(rView) :
            /\ \A i, j \in 1..Len(opOpened[f]) :
                   opOpened[f][i] = opOpened[f][j] => i = j
            /\ {opOpened[f][i] : i \in 1..Len(opOpened[f])}
                   = {FileIdOf(d) : d \in Requested(opKey)}

\* C23: every document a lookup on the A or B view yields carries the V-DOM
\* of its own identifier, also when two or more identifiers of one shard
\* are requested.
C23_LookupVdomOfOwnDocId ==
    (ValidRequest /\ rView \in {"A", "B"}) =>
        \A i \in 1..Len(opDocs) : opDocs[i].vdom = opDocs[i].doc_id

(***************************************************************************)
(* Claims about the slice planner (properties of Spec).                    *)
(***************************************************************************)

\* the start, stop and step __getitem__ hands to _file_iterator_slice
PlannedSlice == SliceIndices(apply_sub_slice(docs_count, opKey), docs_count)

RECURSIVE CountOf(_, _)
\* the catalogue's record count of the shard
CountOf(rows, file_id) ==
    IF rows = <<>> THEN 0
    ELSE IF Head(rows).file_id = file_id THEN Head(rows).count
    ELSE CountOf(Tail(rows), file_id)

\* the shard's range of global indices, from the counts of the shards
\* before it in the catalogue of the format
RangeStart(format, file_id) == Preceding(_record_counts(format), file_id)

RangeEnd(format, file_id) ==
    RangeStart(format, file_id) + CountOf(_record_counts(format), file_id)

Intersects(format, file_id) ==
    Max(RangeStart(format, file_id), PlannedSlice.start)
        < Min(RangeEnd(format, file_id), PlannedSlice.stop)

\* the local indices i of the shard with start <= running + i < stop and
\* (running + i - start) mod step = 0
SelectedIn(format, file_id) ==
    {i \in 0..(CountOf(_record_counts(format), file_id) - 1) :
        LET g == RangeStart(format, file_id) + i
        IN  /\ PlannedSlice.start <= g
            /\ g < PlannedSlice.stop
            /\ PyMod(g - PlannedSlice.start, PlannedSlice.step) = 0}

\* C12: a slice opens, for every format of the view, only shards whose
\* range of global indices intersects [start, stop).
C12_OnlyIntersectingOpened ==
    opKind = "slice" =>
        \A f \in FormatSet(rView) :
            \A i \in 1..Len(opOpened[f]) : Intersects(f, opOpened[f][i])

RECURSIVE PositionsDown(_, _, _)
\* start, start + step, ... > stop for a negative step
PositionsDown(start, stop, step) ==
    IF start <= stop THEN <<>>
    ELSE <<start>> \o PositionsDown(start + step, stop, step)

\* list[start:stop:step] of Python for a negative step
ListSliceReversed(list, key) ==
    LET n == Len(list)
        Bound(v, default) ==
            IF v = <<>> THEN default
            ELSE IF v[1] < 0 THEN Max(v[1] + n, 0 - 1) ELSE Min(v[1], n - 1)
        p == PositionsDown(Bound(key.start, n - 1), Bound(key.stop, 0 - 1),
                           key.step[1])
    IN  [i \in 1..Len(p) |-> list[p[i] + 1]]

\* C13: a slice with a negative step either fails with an error or yields
\* the selected documents of the full iteration in reversed order.
C13_NegativeStepReversedOrRejected ==
    (opKind = "slice" /\ opKey.step # <<>> /\ opKey.step[1] < 0) =>
        \/ opStatus # "ok"
        \/ opDocs = ListSliceReversed(FullIteration.docs, opKey)

\* C18: in a slice of a view with the ZIP format, the V-DOM of every
\* document is the member of the document the GZIP records belong to.
C18_FormatsSelectSamePositions ==
    (opKind = "slice" /\ "vdom" \in FormatSet(rView)) =>
        /\ opStatus = "ok"
        /\ \A i \in 1..Len(opDocs) : opDocs[i].vdom = opDocs[i].doc_id

\* C19: a slice opens no shard that holds no selected index, though its
\* range intersects [start, stop).
C19_EmptySelectionNotOpened ==
    opKind = "slice" =>
        \A f \in FormatSet(rView) :
            \A i \in 1..Len(opOpened[f]) :
                Intersects(f, opOpened[f][i]) =>
                    SelectedIn(f, opOpened[f][i]) # {}

(***************************************************************************)
(* Claims about record_counts (properties of SpecCounts).                  *)
(***************************************************************************)

\* the rows of the diff catalogue whose shard the catalogue of `format`
\* lists, in the order of the diff catalogue
DiffRowsListedBy(format) ==
    LET Listed(row) ==
            \E i \in 1..Len(_record_counts(format)) :
                _record_counts(format)[i].file_id = row.file_id
    IN  SelectSeq(diff_format_record_counts, Listed)

\* C20: record_counts(F) yields the row (file_id, diff count) of exactly
\* the diff-catalogue rows whose file_id is in the catalogue of F, in the
\* order of the diff catalogue.
C20_DiffRowsInFormatCatalogue ==
    opKind = "record_counts" => opDocs = DiffRowsListedBy(opKey[1])


\* C21 as stated: docs_count() is, for every format of the view, the sum
\* of the counts record_counts yields for the format.
C21_CountIsSumOfRecordCounts ==
    opKind = "record_counts" => SumCounts(opDocs) = docs_count

\* the catalogue of `format` lists every shard of the diff catalogue
ListsEveryDiffRow(format) == DiffRowsListedBy(format) = diff_format_record_counts

\* the positions the planner's walk gives the records of row i of
\* record_counts: from the sum of the counts before it
WalkEnd(rows, i) == SumCounts(SubSeq(rows, 1, i))

\* the rows of the diff catalogue record_counts has not yielded
DroppedDiffRows ==
    LET Dropped(row) ==
            ~\E i \in 1..Len(opDocs) : opDocs[i].file_id = row.file_id
    IN  SelectSeq(diff_format_record_counts, Dropped)

\* C21 amended: the counts record_counts yields for a format of the view
\* never sum to more than docs_count(), so no position of the planner's
\* walk lies at or beyond docs_count(); the sum falls short of docs_count()
\* by the counts of the diff-catalogue rows record_counts drops, and none
\* is dropped when the catalogue of the format lists every shard of the
\* diff catalogue.
C21_CountBoundsRecordCounts ==
    opKind = "record_counts" =>
        /\ \A i \in 1..Len(opDocs) : WalkEnd(opDocs, i) <= docs_count
        /\ SumCounts(opDocs) + SumCounts(DroppedDiffRows) = docs_count
        /\ ListsEveryDiffRow(opKey[1]) =>
               /\ DroppedDiffRows = <<>>
               /\ SumCounts(opDocs) = docs_count

\* C21 witness: the TXT catalogue lists every shard of the diff catalogue
\* and one more; record_counts(TXT) has yielded the rows of the diff
\* catalogue, whose counts sum to docs_count() and not to the total of the
\* TXT catalogue.
C21_Witness ==
    /\ opKind = "record_counts"
    /\ opKey = <<"txt">>
    /\ ListsEveryDiffRow("txt")
    /\ Len(opDocs) >= 1
    /\ Len(_record_counts("txt")) > Len(opDocs)
    /\ SumCounts(opDocs) = docs_count
    /\ SumCounts(opDocs) # SumCounts(_record_counts("txt"))

(***************************************************************************)
(* The paths of shard files: _ClueWeb22Iterator._file_paths resolves the   *)
(* path of a catalogue row, ClueWeb22Docstore._file_paths the path of a    *)
(* document identifier.                                                    *)
(***************************************************************************)

Zh == <<"z", "h", "_", "c", "h", "s">>

Other == <<"o", "t", "h", "e", "r">>

PathLanguages == {De, En, Zh, Other}

PathStreams == {0, 7}

PathSubdirectories == {0, 12}

PathFiles == {0, 99}

PathFileIds ==
    {ClueWeb22FileId(l, s, d, f) :
        l \in PathLanguages, s \in PathStreams, d \in PathSubdirectories,
        f \in PathFiles}

\* _ClueWeb22Iterator._file_paths, one row: the path relative to the
\* directory of the corpus
file_id_format_path(format, file_id) ==
    <<format, "/">> \o _fix_path(Path(file_id), format) \o Extension(format)

InitPaths ==
    /\ StreamIdle
    /\ RegistryIdle
    /\ CodecIdle
    /\ CombIdle
    /\ ReaderIdle

\* the path the iterator (full or slice) opens for a catalogue row
CallIteratorFilePaths ==
    /\ opKind = "none"
    /\ \E format \in AllFormats, file_id \in PathFileIds :
        /\ opKind' = "file_path"
        /\ opKey' = [format |-> format, file_id |-> file_id]
        /\ opDocs' = file_id_format_path(format, file_id)
    /\ UNCHANGED <<opStatus, opCount, opOpened, diskVars, othersOfReader>>

\* the path the document store opens for a document identifier
CallDocstoreFilePaths ==
    /\ opKind = "none"
    /\ \E format \in AllFormats, file_id \in PathFileIds :
        /\ opKind' = "doc_id_format_path"
        /\ opKey' = [format |-> format, file_id |-> file_id]
        /\ opDocs' = doc_id_format_path(format, DocIdOf(file_id, 0))
    /\ UNCHANGED <<opStatus, opCount, opOpened, diskVars, othersOfReader>>

NextPaths == CallIteratorFilePaths \/ CallDocstoreFilePaths

SpecPaths == InitPaths /\ [][NextPaths]_vars

(***************************************************************************)
(* Claims about shard paths (properties of SpecPaths).                     *)
(***************************************************************************)

PathResolved == opKind \in {"file_path", "doc_id_format_path"}

\* <language>/<second>/<language><ss><dd>/<language><ss><dd>-<ff> under the
\* directory of the format, with the extension of the format
PathWithSecond(format, file_id, second) ==
    LET l == file_id.language
        ss == Pad(file_id.stream, 2)
        dd == Pad(file_id.subdirectory, 2)
        ff == Pad(file_id.file, 2)
    IN  <<format, "/">> \o l \o <<"/">> \o second \o ss \o <<"/">>
        \o l \o ss \o dd \o <<"/">> \o l \o ss \o dd \o <<"-">> \o ff
        \o Extension(format)

\* C14: the path of an OUTLINK shard of zh_chs is
\* zh_chs/zh<ss>/zh_chs<ss><dd>/zh_chs<ss><dd>-<ff>, only its second
\* component using "zh"; the path of every other format or language has
\* the language in all four components.
C14_ZhOutlinkPath ==
    PathResolved =>
        opDocs = PathWithSecond(
                     opKey.format, opKey.file_id,
                     IF opKey.format = "outlink" /\ opKey.file_id.language = Zh
                     THEN <<"z", "h">> ELSE opKey.file_id.language)

\* the path of an OUTLINK shard of zh_chs has been resolved by the
\* document store
C14_Witness ==
    /\ opKind = "doc_id_format_path"
    /\ opKey.format = "outlink"
    /\ opKey.file_id = ClueWeb22FileId(Zh, 7, 12, 99)
    /\ opDocs = <<"outlink", "/">>
                \o <<"z", "h", "_", "c", "h", "s", "/", "z", "h", "0", "7", "/">>
                \o <<"z", "h", "_", "c", "h", "s", "0", "7", "1", "2", "/">>
                \o <<"z", "h", "_", "c", "h", "s", "0", "7", "1", "2", "-", "9", "9">>
                \o Extension("outlink")

(***************************************************************************)
(* The offset sidecars: _read_offsets and _fix_missing_line_break.  A      *)
(* sidecar holds one offset per line as ten digits; the last two offsets   *)
(* of a defective sidecar share one line.                                  *)
(***************************************************************************)

\* _fix_missing_line_break yielding every line as it is
KeepLines(lines) == lines

RECURSIVE _fix_missing_line_break(_)
_fix_missing_line_break(lines) ==
    IF lines = <<>> THEN <<>>
    ELSE (IF Len(Head(lines)) > 10 + 1
          THEN <<FirstN(Head(lines), 10),
                 SubSeq(Head(lines), 11, Len(Head(lines)))>>
          ELSE <<Head(lines)>>)
         \o _fix_missing_line_break(Tail(lines))

\* format_type.offset_extension of a GZIP format
OffsetExtension(format) ==
    IF format = "html"
    THEN <<".", "w", "a", "r", "c", ".", "o", "f", "f", "s", "e", "t">>
    ELSE <<".", "o", "f", "f", "s", "e", "t">>

\* file_path.name of the shard file of a format
FileName(format, file_id) ==
    LET parts == Split(Path(file_id) \o Extension(format), "/")
    IN  parts[Len(parts)]

\* "ja0009-57.warc.offset"
FixedOffsetsName ==
    <<"j", "a", "0", "0", "0", "9", "-", "5", "7">> \o OffsetExtension("html")

\* _read_offsets for a GZIP format, over the lines of the sidecar
_read_offsets(format, file_id, lines) ==
    LET offsets_name ==
            DropLastN(FileName(format, file_id), Len(Extension(format)))
            \o OffsetExtension(format)
        offsets_file == IF offsets_name = FixedOffsetsName
                        THEN _fix_missing_line_break(lines) ELSE lines
    IN  [i \in 1..Len(offsets_file) |-> PyInt(offsets_file[i])]

MaxOffsets == 3

Ja == <<"j", "a">>

\* the offsets of the example in _fix_missing_line_break, and 0
OffsetValues == {0, 472333010, 472349245}

\* the ascending offset lists of a sidecar
OffsetLists ==
    UNION {{o \in [1..n -> OffsetValues] :
               \A i \in 1..(n - 1) : o[i] <= o[i + 1]} : n \in 1..MaxOffsets}

\* the lines a text file yields: every line but possibly the last ends with
\* a line break; in a defective sidecar the line break between the last two
\* offsets is missing
SidecarLines(offsets, defective, final_line_break) ==
    LET n == Len(offsets)
        end == IF final_line_break THEN <<"\n">> ELSE <<>>
        m == IF defective THEN n - 2 ELSE n - 1
    IN  [i \in 1..m |-> Pad(offsets[i], 10) \o <<"\n">>]
        \o (IF defective
            THEN <<Pad(offsets[n - 1], 10) \o Pad(offsets[n], 10) \o end>>
            ELSE <<Pad(offsets[n], 10) \o end>>)

SidecarShards ==
    {ClueWeb22FileId(Ja, 0, 9, 57), ClueWeb22FileId(Ja, 0, 9, 56),
     ClueWeb22FileId(De, 0, 9, 57)}

\* the sidecar _read_offsets mends
IsFixedSidecar(format, file_id) ==
    format = "html" /\ file_id = ClueWeb22FileId(Ja, 0, 9, 57)

InitOffsets ==
    /\ StreamIdle
    /\ RegistryIdle
    /\ CodecIdle
    /\ CombIdle
    /\ ReaderIdle

\* list(_read_offsets(file_path, format_type)); a line of two offsets read
\* as one number stays within the integers of the model only when the
\* first of them is 0
CallReadOffsets ==
    /\ opKind = "none"
    /\ \E format \in {"txt", "html"}, file_id \in SidecarShards,
          offsets \in OffsetLists, defective \in BOOLEAN,
          final_line_break \in BOOLEAN :
        /\ defective => Len(offsets) >= 2
        /\ (defective /\ ~IsFixedSidecar(format, file_id)) =>
               offsets[Len(offsets) - 1] = 0
        /\ opKind' = "read_offsets"
        /\ opKey' = [format |-> format, file_id |-> file_id,
                     offsets |-> offsets, defective |-> defective,
                     lines |-> SidecarLines(offsets, defective, final_line_break)]
        /\ opDocs' = _read_offsets(
                         format, file_id,
                         SidecarLines(offsets, defective, final_line_break))
    /\ UNCHANGED <<opStatus, opCount, opOpened, diskVars, othersOfReader>>

NextOffsets == CallReadOffsets

SpecOffsets == InitOffsets /\ [][NextOffsets]_vars

(***************************************************************************)
(* Claims about the offset sidecars (properties of SpecOffsets).           *)
(***************************************************************************)

RECURSIVE LongLinesHalved(_)
\* every line longer than 11 characters replaced by its two halves
LongLinesHalved(lines) ==
    IF lines = <<>> THEN <<>>
    ELSE LET line == Head(lines)
             half == Len(line) \div 2
         IN  (IF Len(line) > 11
              THEN <<SubSeq(line, 1, half), SubSeq(line, half + 1, Len(line))>>
              ELSE <<line>>)
             \o LongLinesHalved(Tail(lines))

\* C15: of the sidecar of HTML shard ja/ja00/ja0009/ja0009-57 every line
\* longer than 11 characters is read as the two offsets of its halves, so
\* that the offsets read are the offsets of the records; of every other
\* sidecar every line is read as one integer.
C15_OffsetSidecar ==
    opKind = "read_offsets" =>
        IF IsFixedSidecar(opKey.format, opKey.file_id)
        THEN /\ opDocs = [i \in 1..Len(LongLinesHalved(opKey.lines)) |->
                             PyInt(LongLinesHalved(opKey.lines)[i])]
             /\ opDocs = opKey.offsets
        ELSE opDocs = [i \in 1..Len(opKey.lines) |-> PyInt(opKey.lines[i])]

\* the defective sidecar of ja0009-57 has been read and the two offsets of
\* its last line are the last two offsets read
C15_Witness ==
    /\ opKind = "read_offsets"
    /\ IsFixedSidecar(opKey.format, opKey.file_id)
    /\ opKey.defective
    /\ opKey.offsets = <<0, 472333010, 472349245>>
    /\ Len(opKey.lines) = 2
    /\ opDocs = <<0, 472333010, 472349245>>

(***************************************************************************)
(* register(): the names under which the datasets are registered.          *)
(***************************************************************************)

\* ClueWeb22Subset.tag
SubsetTag(subset) ==
    IF subset = "L" THEN "l" ELSE IF subset = "A" THEN "a" ELSE "b"

\* ClueWeb22Subset.hide
Hide(subset) == subset \in {"L", "A"}

\* ClueWeb22Language.tag of every language
LanguageTags ==
    {"de", "en", "es", "fr", "it", "ja", "nl", "po", "pt", "zh",
     "other-languages"}

\* the names of a subset seen as a view: the tag and the tag with each
\* language
TaggedNames(tag) ==
    {"clueweb22/" \o tag}
    \cup {"clueweb22/" \o tag \o "/" \o language_tag :
             language_tag \in LanguageTags}

\* the names the loop body of register() registers for a subset
SubsetNames(subset) ==
    TaggedNames(SubsetTag(subset))
    \cup UNION {TaggedNames(SubsetTag(subset) \o "/as-" \o SubsetTag(subset_view)) :
                   subset_view \in SubsetViews(subset) \ {subset}}

\* the names register() registers when "clueweb22" is not registered
RegisterNames ==
    {"clueweb22"} \cup UNION {SubsetNames(subset) : subset \in {s \in Subsets : ~Hide(s)}}

\* datasets of other packages
OtherDatasets ==
    {"antique", "beir", "clueweb09", "clueweb12", "msmarco-passage", "trec-robust04"}

InitRegistry ==
    /\ StreamIdle
    /\ CodecIdle
    /\ CombIdle
    /\ ReaderIdle
    /\ registered \in SUBSET OtherDatasets

\* register()
CallRegister ==
    /\ registered' = IF "clueweb22" \in registered THEN registered
                     ELSE registered \cup RegisterNames
    /\ UNCHANGED othersOfRegistry

NextRegistry == CallRegister

SpecRegistry == InitRegistry /\ [][NextRegistry]_vars

(***************************************************************************)
(* Claims about register() (properties of SpecRegistry).                   *)
(***************************************************************************)

\* the eleven language tags
ElevenLanguageTags ==
    {"de", "en", "es", "fr", "it", "ja", "nl", "po", "pt", "zh",
     "other-languages"}

\* name and name/<language-tag> for each language tag are registered
RegisteredWithLanguages(name) ==
    /\ name \in registered
    /\ \A language_tag \in ElevenLanguageTags :
           (name \o "/" \o language_tag) \in registered

\* the tags of the subsets a subset transitively extends
ExtendedTags(subset_tag) ==
    IF subset_tag = "b" THEN {"a", "l"}
    ELSE IF subset_tag = "a" THEN {"l"} ELSE {}

\* clueweb22/<subset-tag>, clueweb22/<subset-tag>/as-<view-tag> for every
\* subset it extends, and each of these with every language tag
SubsetRegistered(subset_tag) ==
    /\ RegisteredWithLanguages("clueweb22/" \o subset_tag)
    /\ \A view_tag \in ExtendedTags(subset_tag) :
           RegisteredWithLanguages(
               "clueweb22/" \o subset_tag \o "/as-" \o view_tag)

\* no name of a subset is registered
SubsetAbsent(subset_tag) ==
    \A name \in registered : ~StartsWith(name, "clueweb22/" \o subset_tag)

\* C16 as stated: after register(), the names of each of the subsets l, a
\* and b are registered.
C16_AllSubsetsRegistered ==
    "clueweb22" \in registered =>
        \A subset_tag \in {"l", "a", "b"} : SubsetRegistered(subset_tag)

\* C16: after register(), the names of the subset b (the subset that is
\* not hidden) are registered and no name of the hidden subsets l and a.
C16_VisibleSubsetsRegistered ==
    "clueweb22" \in registered =>
        /\ SubsetRegistered("b")
        /\ SubsetAbsent("l")
        /\ SubsetAbsent("a")

\* register() has run in a registry that holds datasets of other packages
C16_Witness ==
    /\ "clueweb22" \in registered
    /\ "clueweb22/b/as-l/other-languages" \in registered
    /\ "clueweb09" \in registered

(***************************************************************************)
(* A document iterator consumed one document at a time, and dropped.       *)
(* A call of next(it) runs zip() over the record iterators of the formats: *)
(* each asks its reader for a record and, when the reader has none left,   *)
(* its file generator for the next stream.  The model follows a file       *)
(* generator through its loop and its "with" blocks, one step for every    *)
(* block entered or left, so that a handle is open from the step that      *)
(* enters its block to the step that leaves it.  The frames of a format    *)
(* live as long as the frame of the generator of                           *)
(* _ClueWeb22Iterable.__iter__ that holds them.  CPython finalizes an      *)
(* object when the last reference to it goes; objects that only reference  *)
(* each other stay until the cycle collector runs.                         *)
(***************************************************************************)

Handle(kind, file_id) == [kind |-> kind, file_id |-> file_id]

\* the stream a file generator yields for a shard: the gzip stream of the
\* shard, or a member of the ZIP archive
StreamKind(format) == IF Compression(format) = "GZIP" THEN "gzip" ELSE "member"

\* "with ... as h" entered: h is open
WithEnter(handles, h) == handles \cup {h}

\* a block that leaves what it opened open
LeftOpen(handles, h) == handles

\* "with ... as h" left: h is closed
WithExit(handles, h) == handles \ {h}

\* the steps of the file iterators of the call
StreamSteps(kind, key) ==
    [f \in FormatSet(rView) |->
        IF kind = "iter" THEN _file_iterator_all(f)
        ELSE IF kind = "slice"
        THEN _file_iterator_slice(
                 f, SliceIndices(apply_sub_slice(docs_count, key), docs_count))
        ELSE LookupSteps(f, Docstore_file_paths(f, key.set_order).groups,
                         key.name_order)]

\* the catalogue row (group) the loop of the file generator of a format
\* stands at
CurrentStep(format) == StreamSteps(sKind, sKey)[format][sWalked[format]]

\* whether the file generator yields a stream for the shard it has opened:
\* the slice planner leaves a GZIP shard without a selected index by
\* "continue", and a ZIP archive yields one member per selected name
YieldsStream(format) ==
    IF Compression(format) = "GZIP"
    THEN sKind # "slice" \/ CurrentStep(format).indices # <<>>
    ELSE CurrentStep(format).indices # <<>>

\* the format whose record iterator zip() is asking
Asked == Formats(rView)[sPc]

FormatIndex(format) ==
    CHOOSE i \in 1..Len(Formats(rView)) : Formats(rView)[i] = format

\* the generator of _ClueWeb22Iterable.__iter__ the call consumes
Generator(kind) ==
    IF kind = "iter" THEN "_full_iterator"
    ELSE IF kind = "slice" THEN "slice_iterator" ELSE "lookup_iterator"

\* _ClueWeb22Iterator.__init__: the iterator holds the generator of the
\* full iteration, whose _ClueWeb22Iterable holds the bound method
\* self._file_iterator_all
FullIteratorRefs ==
    {<<"_ClueWeb22Iterator", "_full_iterator">>,
     <<"_full_iterator", "_ClueWeb22Iterator">>}

RECURSIVE Release(_, _)
\* reference counting: an object nothing alive refers to is finalized
Release(alive, refs) ==
    LET dead == {o \in alive \ {"caller"} :
                    ~\E e \in refs : e[2] = o /\ e[1] \in alive}
    IN  IF dead = {} THEN alive ELSE Release(alive \ dead, refs)

RECURSIVE Reachable(_, _)
Reachable(seen, refs) ==
    LET more == {e[2] : e \in {r \in refs : r[1] \in seen}} \ seen
    IN  IF more = {} THEN seen ELSE Reachable(seen \cup more, refs)

StreamKeys ==
    [start : {<<>>, <<1>>}, stop : {<<>>, <<MaxStart>>}, step : {<<>>, <<2>>}]

StreamConfigs == {c \in IteratorConfigs : c.subset = "B" /\ c.set_order = "html"}

InitStream ==
    /\ CodecIdle
    /\ CombIdle
    /\ RegistryIdle
    /\ \E c \in StreamConfigs : Configured(c)
    /\ catalog \in Corpora
    /\ sidecarEnd \in BOOLEAN
    /\ NoOp
    /\ StreamIdle

Started(kind, key, alive, refs) ==
    /\ sKind' = kind
    /\ sKey' = key
    /\ sPhase' = "live"
    /\ sAlive' = alive
    /\ sRefs' = refs
    /\ UNCHANGED <<sPc, sPulled, sGen, sWalked, sRead, sOpen, othersOfStream>>

\* it = docs.docs_iter()
StartIter ==
    /\ sPhase = "none"
    /\ Started("iter", <<>>, {"caller", "_ClueWeb22Iterator", "_full_iterator"},
               {<<"caller", "_ClueWeb22Iterator">>} \cup FullIteratorRefs)

\* it = docs.docs_iter()[start:stop:step]: the generator __getitem__
\* returns refers to the _ClueWeb22Iterator through filter_files
StartSlice ==
    /\ sPhase = "none"
    /\ \E key \in StreamKeys :
        Started("slice", key,
                {"caller", "slice_iterator", "_ClueWeb22Iterator", "_full_iterator"},
                {<<"caller", "slice_iterator">>,
                 <<"slice_iterator", "_ClueWeb22Iterator">>} \cup FullIteratorRefs)

\* it = docs.docs_store().get_many_iter(doc_ids) for identifiers on disk of
\* the reader's language
StartLookup ==
    /\ sPhase = "none"
    /\ \E doc_ids \in {r \in Requests : Cardinality(r) <= 2} :
        LET typed == Typed(doc_ids)
        IN  /\ \A s \in doc_ids : ~FromString(s).raised
            /\ \A d \in typed : OnDisk(d)
            /\ \E set_order \in Orders(typed) :
                \E name_order \in (IF "vdom" \in FormatSet(rView)
                                   THEN Orders(typed) ELSE {set_order}) :
                    /\ ~Docstore_file_paths(Formats(rView)[1], set_order).raised
                    /\ Started("get_many",
                               [doc_ids |-> doc_ids, set_order |-> set_order,
                                name_order |-> name_order],
                               {"caller", "lookup_iterator", "ClueWeb22Docstore"},
                               {<<"caller", "lookup_iterator">>,
                                <<"lookup_iterator", "ClueWeb22Docstore">>})

\* next(it) is called: zip() starts with the first format
CallNext ==
    /\ sPhase = "live"
    /\ sPc = 0
    /\ sPc' = 1
    /\ UNCHANGED <<sKind, sKey, sPhase, sPulled, sGen, sWalked, sRead, sOpen,
                   sAlive, sRefs, othersOfStream>>

\* read_records: the reader yields the next record of the stream; for a ZIP
\* archive the file generator has yielded the next member first, and the
\* loop variable of read_records lets go of the member it held before.
\* zip() goes on to the next format, and after the last one the combiner
\* yields the document to the caller.
ReadRecord ==
    /\ sPhase = "live"
    /\ sPc > 0
    /\ sGen[Asked] = "stream"
    /\ sRead[Asked] < Len(CurrentStep(Asked).indices)
    /\ sRead' = [sRead EXCEPT ![Asked] = @ + 1]
    /\ sOpen' = [sOpen EXCEPT ![Asked] =
                    {h \in @ : h.kind = "member" =>
                                   h.file_id = CurrentStep(Asked).file_id}]
    /\ IF sPc < Len(Formats(rView))
       THEN sPc' = sPc + 1 /\ UNCHANGED sPulled
       ELSE sPc' = 0 /\ sPulled' = sPulled + 1
    /\ UNCHANGED <<sKind, sKey, sPhase, sGen, sWalked, sAlive, sRefs,
                   othersOfStream>>

\* the reader has no record left and read_records asks for the next
\* stream: the file generator resumes after its yield and leaves
\* "with gzip_open(...)", which closes the gzip stream, or
\* "with ZipFile(...)", which closes no member
LeaveStream ==
    /\ sPhase = "live"
    /\ sPc > 0
    /\ sGen[Asked] = "stream"
    /\ sRead[Asked] = Len(CurrentStep(Asked).indices)
    /\ sOpen' = [sOpen EXCEPT ![Asked] =
                    IF Compression(Asked) = "GZIP"
                    THEN WithExit(@, Handle("gzip", CurrentStep(Asked).file_id))
                    ELSE @]
    /\ sGen' = [sGen EXCEPT ![Asked] = "closing"]
    /\ UNCHANGED <<sKind, sKey, sPhase, sPc, sPulled, sWalked, sRead, sAlive,
                   sRefs, othersOfStream>>

\* the file generator leaves "with file_path.open("rb") as file", which
\* closes the shard file
LeaveFile ==
    /\ sPhase = "live"
    /\ sPc > 0
    /\ sGen[Asked] = "closing"
    /\ sOpen' = [sOpen EXCEPT ![Asked] =
                    WithExit(@, Handle("file", CurrentStep(Asked).file_id))]
    /\ sGen' = [sGen EXCEPT ![Asked] = "loop"]
    /\ UNCHANGED <<sKind, sKey, sPhase, sPc, sPulled, sWalked, sRead, sAlive,
                   sRefs, othersOfStream>>

\* the loop of the file generator takes the next file path: it enters
\* "with file_path.open("rb") as file", unless the slice planner skips the
\* shard (overlaps_slice)
NextFile ==
    /\ sPhase = "live"
    /\ sPc > 0
    /\ sGen[Asked] \in {"new", "loop"}
    /\ sWalked[Asked] < Len(StreamSteps(sKind, sKey)[Asked])
    /\ LET step == StreamSteps(sKind, sKey)[Asked][sWalked[Asked] + 1]
       IN  IF step.opened
           THEN /\ sOpen' = [sOpen EXCEPT ![Asked] =
                                WithEnter(@, Handle("file", step.file_id))]
                /\ sGen' = [sGen EXCEPT ![Asked] = "file"]
           ELSE /\ sGen' = [sGen EXCEPT ![Asked] = "loop"]
                /\ UNCHANGED sOpen
    /\ sWalked' = [sWalked EXCEPT ![Asked] = @ + 1]
    /\ UNCHANGED <<sKind, sKey, sPhase, sPc, sPulled, sRead, sAlive, sRefs,
                   othersOfStream>>

\* inside the block of the shard file the file generator opens the stream
\* and yields it: "with gzip_open(file, "rb") as gzip_file: yield gzip_file",
\* or "yield zip_file.open(name, "r")" for the first selected name
YieldStream ==
    /\ sPhase = "live"
    /\ sPc > 0
    /\ sGen[Asked] = "file"
    /\ ~CurrentStep(Asked).raised
    /\ YieldsStream(Asked)
    /\ sOpen' = [sOpen EXCEPT ![Asked] =
                    WithEnter(@, Handle(StreamKind(Asked),
                                        CurrentStep(Asked).file_id))]
    /\ sGen' = [sGen EXCEPT ![Asked] = "stream"]
    /\ sRead' = [sRead EXCEPT ![Asked] = 0]
    /\ UNCHANGED <<sKind, sKey, sPhase, sPc, sPulled, sWalked, sAlive, sRefs,
                   othersOfStream>>

\* the shard holds nothing to yield: "continue" of the slice planner, or a
\* ZIP archive without a selected name
SkipStream ==
    /\ sPhase = "live"
    /\ sPc > 0
    /\ sGen[Asked] = "file"
    /\ ~CurrentStep(Asked).raised
    /\ ~YieldsStream(Asked)
    /\ sGen' = [sGen EXCEPT ![Asked] = "closing"]
    /\ sRead' = [sRead EXCEPT ![Asked] = 0]
    /\ UNCHANGED <<sKind, sKey, sPhase, sPc, sPulled, sWalked, sOpen, sAlive,
                   sRefs, othersOfStream>>

\* inside the block of the shard file the file generator of the full
\* iteration asks the sidecar for its first offset and the sidecar has no
\* line: next() raises StopIteration, which leaves
\* "with file_path.open("rb") as file", closing the shard file, and ends
\* the generator with RuntimeError.  The error ends read_records, the
\* combiner and the generator of __iter__ and reaches the caller of
\* next(it); its traceback holds their frames, and with them the record
\* iterators of the other formats, suspended inside their "with" blocks.
RaiseRuntimeError ==
    /\ sPhase = "live"
    /\ sPc > 0
    /\ sGen[Asked] = "file"
    /\ CurrentStep(Asked).raised
    /\ sOpen' = [sOpen EXCEPT ![Asked] =
                    WithExit(@, Handle("file", CurrentStep(Asked).file_id))]
    /\ sGen' = [sGen EXCEPT ![Asked] = "ended"]
    /\ sPhase' = "raised"
    /\ sPc' = 0
    /\ UNCHANGED <<sKind, sKey, sPulled, sWalked, sRead, sAlive, sRefs,
                   othersOfStream>>

\* the caller lets go of the RuntimeError (the end of its except block):
\* the traceback goes and the frames it held are released
ReleaseTraceback ==
    /\ sPhase = "raised"
    /\ sPhase' = "releasing"
    /\ UNCHANGED <<sKind, sKey, sPc, sPulled, sGen, sWalked, sRead, sOpen,
                   sAlive, sRefs, othersOfStream>>

\* the loop of the file generator has no file path left: the generator
\* returns, read_records returns and its frame lets go of the member it
\* held; zip() stops and the generator of __iter__ is about to return
EndFiles ==
    /\ sPhase = "live"
    /\ sPc > 0
    /\ sGen[Asked] \in {"new", "loop"}
    /\ sWalked[Asked] = Len(StreamSteps(sKind, sKey)[Asked])
    /\ sGen' = [sGen EXCEPT ![Asked] = "ended"]
    /\ sOpen' = [sOpen EXCEPT ![Asked] = {h \in @ : h.kind # "member"}]
    /\ sPhase' = "returning"
    /\ UNCHANGED <<sKind, sKey, sPc, sPulled, sWalked, sRead, sAlive, sRefs,
                   othersOfStream>>

\* what the finalization of the frames of a format closes first: a record
\* iterator closed while suspended closes its reader and then its file
\* generator, which leaves its "with" blocks from the inside; the member
\* of a ZIP archive goes last, with the loop variable of read_records
ClosedFirst(format) ==
    IF \E h \in sOpen[format] : h.kind = "gzip" THEN "gzip"
    ELSE IF \E h \in sOpen[format] : h.kind = "file" THEN "file"
    ELSE "member"

\* the generator of __iter__ returns, or the traceback of its error is
\* released, and its frame goes: the tuple of record iterators is released
\* from its last member to its first, and a generator finalized while
\* suspended leaves its "with" blocks
Finalize ==
    /\ sPhase \in {"returning", "releasing"}
    /\ \E f \in FormatSet(rView) :
        /\ sOpen[f] # {}
        /\ \A g \in FormatSet(rView) :
               FormatIndex(g) > FormatIndex(f) => sOpen[g] = {}
        /\ sOpen' = [sOpen EXCEPT ![f] = {h \in @ : h.kind # ClosedFirst(f)}]
    /\ UNCHANGED <<sKind, sKey, sPhase, sPc, sPulled, sGen, sWalked, sRead,
                   sAlive, sRefs, othersOfStream>>

\* next(it) raises StopIteration: the generator of __iter__ has returned
\* and refers to nothing any more
RaiseStopIteration ==
    /\ sPhase = "returning"
    /\ \A f \in AllFormats : sOpen[f] = {}
    /\ sPhase' = "exhausted"
    /\ sPc' = 0
    /\ sGen' = [f \in AllFormats |->
                   IF f \in FormatSet(rView) THEN "ended" ELSE sGen[f]]
    /\ sRefs' = {e \in sRefs : e[1] # Generator(sKind)}
    /\ sAlive' = Release(sAlive, {e \in sRefs : e[1] # Generator(sKind)})
    /\ UNCHANGED <<sKind, sKey, sPulled, sWalked, sRead, sOpen, othersOfStream>>

\* the frames of the failed iteration have gone: the generator of __iter__
\* refers to nothing any more
FramesReleased ==
    /\ sPhase = "releasing"
    /\ \A f \in AllFormats : sOpen[f] = {}
    /\ sPhase' = "failed"
    /\ sGen' = [f \in AllFormats |->
                   IF f \in FormatSet(rView) THEN "ended" ELSE sGen[f]]
    /\ sRefs' = {e \in sRefs : e[1] # Generator(sKind)}
    /\ sAlive' = Release(sAlive, {e \in sRefs : e[1] # Generator(sKind)})
    /\ UNCHANGED <<sKind, sKey, sPc, sPulled, sWalked, sRead, sOpen,
                   othersOfStream>>

\* del it, between two calls of next(it): the caller gives up its
\* reference; the handles are closed when the generator that owns them is
\* finalized
Drop ==
    /\ sPhase \in {"live", "exhausted"}
    /\ sPc = 0
    /\ sPhase' = "dropped"
    /\ LET refs == {e \in sRefs : e[1] # "caller"}
           alive == Release(sAlive, refs)
       IN  /\ sAlive' = alive
           /\ sRefs' = {e \in refs : e[1] \in alive}
           /\ sOpen' = IF Generator(sKind) \in alive THEN sOpen
                       ELSE [f \in AllFormats |-> {}]
    /\ UNCHANGED <<sKind, sKey, sPc, sPulled, sGen, sWalked, sRead,
                   othersOfStream>>

\* the cycle collector runs: what the caller cannot reach is finalized
Collect ==
    /\ sPhase # "none"
    /\ LET alive == Reachable({"caller"}, sRefs) \cap sAlive
       IN  /\ sAlive' = alive
           /\ sRefs' = {e \in sRefs : e[1] \in alive}
           /\ sOpen' = IF Generator(sKind) \in alive THEN sOpen
                       ELSE [f \in AllFormats |-> {}]
    /\ UNCHANGED <<sKind, sKey, sPhase, sPc, sPulled, sGen, sWalked, sRead,
                   othersOfStream>>

NextStream ==
    \/ StartIter
    \/ StartSlice
    \/ StartLookup
    \/ CallNext
    \/ ReadRecord
    \/ LeaveStream
    \/ LeaveFile
    \/ NextFile
    \/ YieldStream
    \/ SkipStream
    \/ RaiseRuntimeError
    \/ ReleaseTraceback
    \/ EndFiles
    \/ Finalize
    \/ RaiseStopIteration
    \/ FramesReleased
    \/ Drop
    \/ Collect

SpecStream == InitStream /\ [][NextStream]_vars

(***************************************************************************)
(* Claims about a consumed iterator (properties of SpecStream).            *)
(***************************************************************************)

\* C11: once the caller has dropped the iterator (of a full iteration, a
\* slice or a lookup, after any number of documents), no shard file and no
\* inner stream of any format is open.
C11_DropReleasesHandles ==
    sPhase = "dropped" => \A f \in AllFormats : sOpen[f] = {}

\* C17: at every shard the walk of the slice planner has reached, for every
\* format, the running index offset is the sum of the counts of the shards
\* before it in the catalogue.
C17_RunningOffsetIsSumOfCounts ==
    sKind = "slice" =>
        \A f \in FormatSet(rView) :
            \A i \in 1..sWalked[f] :
                LET step == StreamSteps(sKind, sKey)[f][i]
                IN  step.index_offset
                        = Preceding(Iterator_file_paths(f), step.file_id)

\* the shard files of a format that are open
OpenFiles(format) == {h \in sOpen[format] : h.kind = "file"}

\* the shard the walk of a format reached last
LastWalked(format) == CurrentStep(format).file_id

\* no shard file of a format is opened while another one of the format is
\* open
OpenedAfterClose ==
    \A f \in AllFormats : OpenFiles(f)' \ OpenFiles(f) # {} => OpenFiles(f) = {}

\* C25: at every point of a full iteration, a slice and a lookup, between
\* and within the calls of next(it), at most one shard file of each format
\* is open, and it is the shard the walk of the format reached last; a
\* shard file is opened only when no other shard file of the format is
\* open, so every shard opened before it has been closed.
C25_OneOpenShardPerFormat ==
    /\ [](\A f \in AllFormats :
            /\ Cardinality(OpenFiles(f)) <= 1
            /\ \A h \in OpenFiles(f) :
                   f \in FormatSet(rView) /\ h.file_id = LastWalked(f))
    /\ [][OpenedAfterClose]_vars

\* C25 witness: within a call of next(it) on an iterator of the A view, the
\* file generator of the V-DOM format has left one shard it had opened and
\* has just opened the next, which is the one open shard file of the
\* format, while the TXT format holds its shard open.
C25_Witness ==
    /\ sPhase = "live"
    /\ rView = "A"
    /\ sGen["vdom"] = "file"
    /\ sWalked["vdom"] >= 2
    /\ \E i \in 1..(sWalked["vdom"] - 1) :
           StreamSteps(sKind, sKey)["vdom"][i].opened
    /\ OpenFiles("vdom") = {Handle("file", LastWalked("vdom"))}
    /\ OpenFiles("txt") # {}

\* the iterator of an A or B view has been consumed to its end
ExhaustedAB == sPhase = "exhausted" /\ rView \in {"A", "B"}

\* every record needed of the shard at which the file generator of a
\* format stands has been decoded
LastNeededDecoded(format) ==
    /\ sGen[format] = "stream"
    /\ sRead[format] = Len(CurrentStep(format).indices)

\* once the documents of an A or B view have been consumed to the end of the
\* sequence, no shard file and no inner stream of any format is open
ExhaustedClosesEveryShard ==
    ExhaustedAB => \A f \in AllFormats : sOpen[f] = {}

\* C26: a shard file is closed as soon as its last needed record has been
\* decoded: when the caller holds a document, no format has a shard file
\* open whose needed records have all been decoded; and once the documents
\* of an A or B view have been consumed to the end of the sequence, no
\* shard file and no inner stream of any format is open.
C26_ClosedAfterLastNeededRecord ==
    /\ (sPhase = "live" /\ sPc = 0) =>
           \A f \in FormatSet(rView) : LastNeededDecoded(f) => OpenFiles(f) = {}
    /\ ExhaustedClosesEveryShard

====
